---- MODULE Spec2Model ----
(***************************************************************************)
(* A model of the mortar ballistic library (src/src/lib.rs): geometry and  *)
(* bearings, range tables and their linear lookup, the dispersion          *)
(* adjustment, the firing solution matrix, the miss correction and the two *)
(* loaders of the data directory; of the PCHIP interpolation               *)
(* (src/src/pchip.rs) and of the resampling tool built on it               *)
(* (src/src/bin/smooth_csv.rs); and of the server                          *)
(* (src/src/bin/server.rs): its two lists of positions, each behind a      *)
(* read-write lock, served to concurrent web requests and to the command   *)
(* loop, one step per stretch of a handler between two awaits.             *)
(*                                                                         *)
(* f64 values are modelled as exact rationals n/d together with the three  *)
(* non-finite values NaN, +Infinity and -Infinity; comparisons and         *)
(* arithmetic follow IEEE 754 on the non-finite values (every comparison   *)
(* with NaN is false, Infinity - Infinity is NaN, ...).  Rounding and the  *)
(* sign of zero are not modelled, 0.05 and 0.01 are the exact decimals;    *)
(* the exceptions are the bearing, whose sum with 360.0 is rounded to      *)
(* binary64 as the hardware does, and the sum that ends the interpolation  *)
(* of elev_at.  The loop variable of the resampling tool is an i32 and     *)
(* overflows as one.                                                       *)
(***************************************************************************)
EXTENDS Integers, Sequences, FiniteSets, TLC

VARIABLES
    mortar,            \* the firing point handed to the solver
    target,            \* the target point handed to the solver / corrector
    ballistics,        \* BTreeMap<(AmmoKind, Ring), BallisticTable>
    dispersion_table,  \* BTreeMap<(AmmoKind, Ring), f64>
    solution,          \* outcome of calculate_solution_with_dispersion
    rows,              \* the rows of the CSV file read by from_csv
    table,             \* outcome of BallisticTable::from_csv
    query,             \* the range_m passed to elev_at
    elev,              \* outcome of elev_at
    dispersion,        \* arguments and result of calculate_dispersion
    deviation,         \* the (vertical_m, horizontal_m) passed to apply_correction
    corrected,         \* outcome of apply_correction
    history,           \* names of the targets corrected so far, oldest first
    pos_a,             \* Position `self` of distance_to
    pos_b,             \* Position `other` of distance_to
    distances,         \* results of distance_to on pos_a, pos_b
    azimuth,           \* outcome of azimuth_to on pos_a, pos_b
    pchip_x,           \* the ranges x handed to pchip_slopes and pchip_eval
    pchip_y,           \* the elevations y handed to them
    pchip_d,           \* outcome of pchip_slopes(x, y)
    pchip_xq,          \* the query xq handed to pchip_eval
    pchip_with,        \* the slopes d handed to pchip_eval
    pchip_v,           \* outcome of pchip_eval(x, y, d, xq)
    tool_args,         \* smooth_csv: the parsed command line (step, out)
    tool_input,        \* smooth_csv: the input file on disk
    tool_pc,           \* smooth_csv: where main is
    tool_pts,          \* smooth_csv: the valid rows read, in input order
    tool_fit,          \* smooth_csv: x, y, d, x_max once the slopes are built
    tool_r,            \* smooth_csv: the loop variable (i32)
    tool_out_rows,     \* smooth_csv: the rows computed so far
    tool_out_file,     \* smooth_csv: the output file on disk
    tool_exit,         \* smooth_csv: how main ended
    data_dir,          \* the CSV files of the data directory
    metrics_json,      \* the "dispersion" object of metrics.json
    loaded,            \* which of the two loaders have run
    srv_mortars,       \* server: AppState.mortars, the Vec behind its RwLock
    srv_targets,       \* server: AppState.targets, the Vec behind its RwLock
    srv_lock,          \* server: holders and wait queue of the two RwLocks
    srv_req,           \* server: the request each task is handling
    srv_out,           \* server: the last response, with its task and request
    srv_served,        \* server: how many requests have been received
    srv_up             \* server: whether the process is still running

vars == <<mortar, target, ballistics, dispersion_table, solution, rows, table,
          query, elev, dispersion, deviation, corrected, history,
          pos_a, pos_b, distances, azimuth,
          pchip_x, pchip_y, pchip_d, pchip_xq, pchip_with, pchip_v,
          tool_args, tool_input, tool_pc, tool_pts, tool_fit, tool_r,
          tool_out_rows, tool_out_file, tool_exit,
          data_dir, metrics_json, loaded,
          srv_mortars, srv_targets, srv_lock, srv_req, srv_out, srv_served,
          srv_up>>

----------------------------------------------------------------------------
(* f64                                                                      *)

RECURSIVE Gcd(_, _)
Gcd(a, b) == IF b = 0 THEN a ELSE Gcd(b, a % b)

Abs(n) == IF n < 0 THEN -n ELSE n

\* The rational n/d in lowest terms with a positive denominator.
Rat(n, d) ==
    LET g == Gcd(Abs(n), Abs(d))
        s == IF d < 0 THEN -1 ELSE 1
    IN  [k |-> "fin", n |-> (s * n) \div g, d |-> (s * d) \div g]

Fin(n) == [k |-> "fin", n |-> n, d |-> 1]
NaN == [k |-> "nan", n |-> 0, d |-> 1]
PInf == [k |-> "inf", n |-> 1, d |-> 1]
NInf == [k |-> "inf", n |-> -1, d |-> 1]

is_finite(a) == a.k = "fin"
is_nan(a) == a.k = "nan"
Sign(a) == IF a.n > 0 THEN 1 ELSE IF a.n < 0 THEN -1 ELSE 0
Inf(s) == IF s > 0 THEN PInf ELSE NInf

FNeg(a) == [a EXCEPT !.n = -a.n]

FAdd(a, b) ==
    IF is_nan(a) \/ is_nan(b) THEN NaN
    ELSE IF a.k = "inf" /\ b.k = "inf" THEN (IF a.n = b.n THEN a ELSE NaN)
    ELSE IF a.k = "inf" THEN a
    ELSE IF b.k = "inf" THEN b
    ELSE LET g == Gcd(a.d, b.d)
         IN  Rat(a.n * (b.d \div g) + b.n * (a.d \div g), (a.d \div g) * b.d)

FSub(a, b) == FAdd(a, FNeg(b))

FMul(a, b) ==
    IF is_nan(a) \/ is_nan(b) THEN NaN
    ELSE IF a.k = "inf" \/ b.k = "inf"
         THEN (IF Sign(a) = 0 \/ Sign(b) = 0 THEN NaN ELSE Inf(Sign(a) * Sign(b)))
    ELSE LET g1 == Gcd(Abs(a.n), b.d)
             g2 == Gcd(Abs(b.n), a.d)
         IN  IF a.n = 0 \/ b.n = 0 THEN Fin(0)
             ELSE Rat((a.n \div g1) * (b.n \div g2), (a.d \div g2) * (b.d \div g1))

FDiv(a, b) ==
    IF is_nan(a) \/ is_nan(b) THEN NaN
    ELSE IF a.k = "inf" THEN (IF b.k = "inf" THEN NaN
                              ELSE Inf(Sign(a) * (IF Sign(b) < 0 THEN -1 ELSE 1)))
    ELSE IF b.k = "inf" THEN Fin(0)
    ELSE IF b.n = 0 THEN (IF a.n = 0 THEN NaN ELSE Inf(Sign(a)))
    ELSE LET g1 == Gcd(Abs(a.n), Abs(b.n))
             g2 == Gcd(a.d, b.d)
         IN  IF a.n = 0 THEN Fin(0)
             ELSE Rat((a.n \div g1) * (b.d \div g2), (a.d \div g2) * (b.n \div g1))

\* Option<Ordering> of f64::partial_cmp: "None" when either side is NaN.
partial_cmp(a, b) ==
    IF is_nan(a) \/ is_nan(b) THEN "None"
    ELSE IF a.k = "inf" /\ b.k = "inf"
         THEN (IF a.n = b.n THEN "Equal" ELSE IF a.n < b.n THEN "Less" ELSE "Greater")
    ELSE IF a.k = "inf" THEN (IF a.n < 0 THEN "Less" ELSE "Greater")
    ELSE IF b.k = "inf" THEN (IF b.n < 0 THEN "Greater" ELSE "Less")
    ELSE IF Sign(a) < Sign(b) THEN "Less"
    ELSE IF Sign(a) > Sign(b) THEN "Greater"
    ELSE LET g == Gcd(a.d, b.d)
             l == a.n * (b.d \div g)
             m == b.n * (a.d \div g)
         IN  IF l < m THEN "Less" ELSE IF l > m THEN "Greater" ELSE "Equal"

FLt(a, b) == partial_cmp(a, b) = "Less"
FGt(a, b) == partial_cmp(a, b) = "Greater"
FGe(a, b) == partial_cmp(a, b) \in {"Greater", "Equal"}
FLe(a, b) == partial_cmp(a, b) \in {"Less", "Equal"}
FEq(a, b) == partial_cmp(a, b) = "Equal"

FAbs(a) == IF Sign(a) < 0 THEN FNeg(a) ELSE a

\* The integer square root of n >= 0, by bisection on [lo, hi].
RECURSIVE ISqrt(_, _, _)
ISqrt(n, lo, hi) ==
    IF lo >= hi THEN lo
    ELSE LET mid == (lo + hi + 1) \div 2
         IN  IF mid * mid <= n THEN ISqrt(n, mid, hi) ELSE ISqrt(n, lo, mid - 1)

\* The floor of the square root of n >= 0 (46340 is the largest root of a
\* 32-bit integer).
Root(n) == ISqrt(n, 0, IF n < 46340 THEN n ELSE 46340)

IsSquare(n) == n >= 0 /\ Root(n) * Root(n) = n

\* f64::sqrt, exact on the perfect squares (the only finite arguments the
\* positions below produce).
FSqrt(a) ==
    IF is_nan(a) THEN NaN
    ELSE IF a.k = "inf" THEN (IF a.n > 0 THEN PInf ELSE NaN)
    ELSE IF a.n < 0 THEN NaN
    ELSE Rat(Root(a.n), Root(a.d))

\* Option<f64>, with the third outcome of a call that panicked.
None == [tag |-> "None", v |-> Fin(0)]
Some(v) == [tag |-> "Some", v |-> v]
Panic == [tag |-> "Panic", v |-> Fin(0)]

----------------------------------------------------------------------------
(* Kinds, rings, target types                                               *)

\* AmmoKind::all()
AmmoKind_all == <<"Practice", "He", "Smoke", "Flare">>

AmmoKind == {"Practice", "He", "Smoke", "Flare"}

\* AmmoKind::as_str
AmmoKind_as_str(kind) ==
    CASE kind = "Practice" -> "PRACTICE"
      [] kind = "He" -> "HE"
      [] kind = "Smoke" -> "SMOKE"
      [] kind = "Flare" -> "FLARE"

TargetType == {"Infanterie", "Vehicule", "Soutien"}

\* TargetType::as_str
TargetType_as_str(t) ==
    CASE t = "Infanterie" -> "INFANTERIE"
      [] t = "Vehicule" -> "VEHICULE"
      [] t = "Soutien" -> "SOUTIEN"

\* Smoke recommended against anything but infantry.
suggested_ammo_smoke_unless_infantry(t) ==
    IF t = "Infanterie" THEN "He" ELSE "Smoke"

\* TargetType::suggested_ammo
suggested_ammo(t) ==
    CASE t = "Infanterie" -> "He"
      [] t = "Vehicule" -> "He"
      [] t = "Soutien" -> "Smoke"

\* let rings: &[u8] = &[0, 1, 2, 3, 4];
rings == <<0, 1, 2, 3, 4>>

\* format!("{}R", r)
RingKey(r) == ToString(r) \o "R"

----------------------------------------------------------------------------
(* Geometry                                                                 *)

\* Position::new
Position(name, elevation, x, y) ==
    [name |-> name, elevation |-> elevation, x |-> x, y |-> y]

\* MortarPosition::as_position, TargetPosition::as_position
as_position(p) == Position(p.name, p.elevation, p.x, p.y)

\* A variant of distance_to that measures in space, altitude included.
distance_to_slant(self, other) ==
    LET dx == FSub(self.x, other.x)
        dy == FSub(self.y, other.y)
        dz == FSub(self.elevation, other.elevation)
    IN  FSqrt(FAdd(FAdd(FMul(dx, dx), FMul(dy, dy)), FMul(dz, dz)))

\* Position::distance_to
distance_to(self, other) ==
    LET dx == FSub(self.x, other.x)
        dy == FSub(self.y, other.y)
    IN  FSqrt(FAdd(FMul(dx, dx), FMul(dy, dy)))

\* Position::elevation_difference
elevation_difference(self, other) == FAbs(FSub(self.elevation, other.elevation))

\* Bearings need the rounding of binary64, which the exact rationals above
\* leave out.  An angle in degrees is deg + m * 2^e: whole degrees deg and
\* a part m * 2^e below one degree (m = 0, e = 0 when there is none).
Degrees(deg) == [deg |-> deg, m |-> 0, e |-> 0]

RECURSIVE Pow2(_)
Pow2(n) == IF n = 0 THEN 1 ELSE 2 * Pow2(n - 1)

RECURSIVE Log2(_)
Log2(n) == IF n <= 1 THEN 0 ELSE 1 + Log2(n \div 2)

IsPow2(n) == n >= 1 /\ Pow2(Log2(n)) = n

\* |dx / dy| is a power of two 2^-j: the j, for dx = +-1 / 2^a and
\* dy = 2^b.
SlopeExponent(dx, dy) == Log2(dx.d) + Log2(dy.n)

\* dx / dy is +-2^-j with j >= 27, where atan(z) is z itself in binary64
\* (z^3 / 3 is below half a unit in the last place of z).
SmallSlope(dx, dy) ==
    /\ Abs(dx.n) = 1 /\ IsPow2(dx.d)
    /\ dy.d = 1 /\ IsPow2(dy.n)
    /\ SlopeExponent(dx, dy) >= 27

\* f64::to_degrees of a power of two +-2^-j: the product with the binary64
\* constant 180 / pi = 0x1.ca5dc1a63c1f8p+5, exact because only the exponent
\* changes.  m holds the leading 30 bits of its mantissa
\* (floor(180 / pi * 2^24) = 961263668); the bits left out are not all zero,
\* so the magnitude of the angle lies strictly between |m| and |m| + 1 units
\* of 2^e.
to_degrees_pow2(sign, j) == [deg |-> 0, m |-> sign * 961263668, e |-> -24 - j]

\* dx.atan2(dy).to_degrees() on the directions whose binary64 result is
\* known exactly: the eight compass directions, coincident points, and the
\* directions a power of two 2^-j (j >= 27) off due north.
atan2_to_degrees(dx, dy) ==
    CASE Sign(dx) = 0 /\ Sign(dy) >= 0 -> Degrees(0)
      [] Sign(dx) = 0 /\ Sign(dy) < 0 -> Degrees(180)
      [] Sign(dx) > 0 /\ Sign(dy) = 0 -> Degrees(90)
      [] Sign(dx) < 0 /\ Sign(dy) = 0 -> Degrees(-90)
      [] Sign(dy) > 0 /\ dx = dy -> Degrees(45)
      [] Sign(dy) < 0 /\ dx = FNeg(dy) -> Degrees(135)
      [] Sign(dy) > 0 /\ dx = FNeg(dy) -> Degrees(-45)
      [] Sign(dy) < 0 /\ dx = dy -> Degrees(-135)
      [] Sign(dy) > 0 /\ SmallSlope(dx, dy) ->
            to_degrees_pow2(Sign(dx), SlopeExponent(dx, dy))

\* azimuth < 0.0
AngleNegative(a) == a.deg < 0 \/ (a.deg = 0 /\ a.m < 0)

\* azimuth + 360.0 for a negative azimuth, rounded to nearest (ties to
\* even) as binary64 does.  Whole degrees add exactly.  A part below one
\* degree lands in [256, 512), where binary64 holds the multiples of 2^-44
\* only: -(|m| + tail) * 2^e is (|m| + tail) / 2^k units of 2^-44 with
\* k = -44 - e, tail strictly between 0 and 1, so there is no tie, and the
\* units round up exactly when |m| mod 2^k >= 2^(k-1).  With k > 30 the
\* part is below half a unit and the sum is 360.0 itself.
add_360(a) ==
    IF a.m = 0
    THEN Degrees(a.deg + 360)
    ELSE LET k == -44 - a.e
             mag == -a.m
             units == IF k > 30
                      THEN 0
                      ELSE (mag \div Pow2(k))
                           + (IF mag % Pow2(k) >= Pow2(k - 1) THEN 1 ELSE 0)
         IN  IF units = 0
             THEN Degrees(360)
             ELSE [deg |-> 360, m |-> -units, e |-> -44]

\* Position::azimuth_to
azimuth_to(self, other) ==
    LET dy == FSub(other.y, self.y)
        dx == FSub(other.x, self.x)
        az == atan2_to_degrees(dx, dy)
    IN  IF AngleNegative(az) THEN add_360(az) ELSE az

----------------------------------------------------------------------------
(* Range tables                                                             *)

\* BallisticPoint
BallisticPoint(range_m, elev_mil) == [range_m |-> range_m, elev_mil |-> elev_mil]

\* One pass of the stable sort of from_csv: p goes after every point whose
\* range is not greater than its own.
RECURSIVE InsertSorted(_, _)
InsertSorted(sorted, p) ==
    IF sorted = <<>> THEN <<p>>
    ELSE IF partial_cmp(sorted[Len(sorted)].range_m, p.range_m) = "Greater"
         THEN Append(InsertSorted(SubSeq(sorted, 1, Len(sorted) - 1), p),
                     sorted[Len(sorted)])
    ELSE Append(sorted, p)

\* pts.sort_by(|a, b| a.range_m.partial_cmp(&b.range_m).unwrap()), a stable sort
RECURSIVE sort_by(_)
sort_by(pts) ==
    IF pts = <<>> THEN <<>>
    ELSE InsertSorted(sort_by(SubSeq(pts, 1, Len(pts) - 1)), pts[Len(pts)])

\* The rows kept by the loop of from_csv, in input order.
RECURSIVE FinitePoints(_)
FinitePoints(rs) ==
    IF rs = <<>> THEN <<>>
    ELSE LET r == rs[Len(rs)]
             rest == FinitePoints(SubSeq(rs, 1, Len(rs) - 1))
         IN  IF is_finite(r.range_m) /\ is_finite(r.elev_mil)
             THEN Append(rest, BallisticPoint(r.range_m, r.elev_mil))
             ELSE rest

\* BallisticTable::from_csv on a file holding the rows rs.  A row that does
\* not deserialize (ok = FALSE) makes the load fail (`rec?`); the comparator
\* of the sort panics on a NaN range (it is called as soon as there are two
\* points).
from_csv(rs) ==
    IF \E i \in 1..Len(rs) : ~rs[i].ok
    THEN [tag |-> "Err", points |-> <<>>]
    ELSE LET pts == FinitePoints(rs)
         IN  IF Len(pts) >= 2 /\ \E i \in 1..Len(pts) : is_nan(pts[i].range_m)
             THEN [tag |-> "Panic", points |-> <<>>]
             ELSE [tag |-> "Ok", points |-> sort_by(pts)]

\* BallisticTable::range_bounds
range_bounds(points) ==
    IF points = <<>> THEN [tag |-> "None", first |-> Fin(0), last |-> Fin(0)]
    ELSE [tag |-> "Some", first |-> points[1].range_m,
          last |-> points[Len(points)].range_m]

\* <[T]>::binary_search_by on the half-open index interval [left, right)
\* (indices from 0), with the comparator
\* |p| p.range_m.partial_cmp(&range_m).unwrap() of elev_at.
RECURSIVE binary_search_by(_, _, _, _)
binary_search_by(points, range_m, left, right) ==
    IF left >= right THEN [tag |-> "Err", i |-> left]
    ELSE LET mid == left + ((right - left) \div 2)
             cmp == partial_cmp(points[mid + 1].range_m, range_m)
         IN  CASE cmp = "None" -> [tag |-> "Panic", i |-> 0]
               [] cmp = "Less" -> binary_search_by(points, range_m, mid + 1, right)
               [] cmp = "Greater" -> binary_search_by(points, range_m, left, mid)
               [] cmp = "Equal" -> [tag |-> "Ok", i |-> mid]

\* usize::saturating_sub
saturating_sub(a, b) == IF a >= b THEN a - b ELSE 0

\* A variant of Interpolate that forgets the offset of p0 in the numerator.
Interpolate_no_offset(p0, p1, range_m) ==
    LET t == FDiv(range_m, FSub(p1.range_m, p0.range_m))
    IN  FAdd(p0.elev_mil, FMul(t, FSub(p1.elev_mil, p0.elev_mil)))

\* a + b rounded to binary64 (to nearest, ties to even) where the sum is not
\* a itself only by less than half the spacing of binary64 at a: with
\* 2^E <= |a| < 2^(E+1) the neighbours of a are 2^(E-52) away (2^(E-53) on
\* the side of zero when |a| = 2^E), so a + b is a when |b| is at most half
\* of that (a tie goes to a: its last bit is 0 for every a held here).  A
\* b of 2^-31 or more in magnitude is never that small unless |a| >= 2^23.
\* Every other sum held here is a dyadic of fewer than 53 bits, hence exact.
FAddNearest(a, b) ==
    LET E == Log2(Abs(a.n) \div a.d)
        toward_zero == Sign(a) # Sign(b)
        k == IF a.d = 1 /\ IsPow2(Abs(a.n)) /\ toward_zero THEN 54 - E ELSE 53 - E
    IN  IF /\ is_finite(a) /\ is_finite(b)
           /\ Sign(a) # 0 /\ Sign(b) # 0
           /\ k >= 0 /\ k <= 30
           /\ FLe(FAbs(b), Rat(1, Pow2(k)))
        THEN a
        ELSE FAdd(a, b)

\* The interpolation of elev_at between p0 and p1.
Interpolate(p0, p1, range_m) ==
    LET t == FDiv(FSub(range_m, p0.range_m), FSub(p1.range_m, p0.range_m))
    IN  FAddNearest(p0.elev_mil, FMul(t, FSub(p1.elev_mil, p0.elev_mil)))

\* A variant of OutOfBounds with exclusive bounds.
OutOfBounds_exclusive(range_m, minr, maxr) ==
    ~FGt(range_m, minr) \/ ~FLt(range_m, maxr)

\* The bounds test of elev_at: range_m < minr || range_m > maxr
OutOfBounds(range_m, minr, maxr) == FLt(range_m, minr) \/ FGt(range_m, maxr)

\* BallisticTable::elev_at
elev_at(points, range_m) ==
    IF Len(points) < 2 THEN None
    ELSE LET b == range_bounds(points)
         IN  IF b.tag = "None" THEN None
             ELSE IF OutOfBounds(range_m, b.first, b.last) THEN None
             ELSE LET s == binary_search_by(points, range_m, 0, Len(points))
                      idx == saturating_sub(s.i, 1)
                  IN  IF s.tag = "Panic" THEN Panic
                      ELSE IF s.tag = "Ok" THEN Some(points[s.i + 1].elev_mil)
                      ELSE IF idx + 1 >= Len(points)
                           THEN Some(points[Len(points)].elev_mil)
                      ELSE Some(Interpolate(points[idx + 1], points[idx + 2], range_m))

----------------------------------------------------------------------------
(* Dispersion                                                               *)

\* A variant of calculate_dispersion that floors the result at zero.
calculate_dispersion_floored(base_dispersion, mortar_elevation, target_elevation) ==
    LET delta == FSub(mortar_elevation, target_elevation)
        factor == IF FGe(delta, Fin(0))
                  THEN FAdd(Fin(1), FMul(delta, Rat(5, 100)))
                  ELSE FAdd(Fin(1), FMul(delta, Rat(1, 100)))
        result == FMul(base_dispersion, factor)
    IN  IF FLt(result, Fin(0)) THEN Fin(0) ELSE result

\* calculate_dispersion
calculate_dispersion(base_dispersion, mortar_elevation, target_elevation) ==
    LET delta == FSub(mortar_elevation, target_elevation)
        factor == IF FGe(delta, Fin(0))
                  THEN FAdd(Fin(1), FMul(delta, Rat(5, 100)))
                  ELSE FAdd(Fin(1), FMul(delta, Rat(1, 100)))
    IN  FMul(base_dispersion, factor)

----------------------------------------------------------------------------
(* Firing solution                                                          *)

\* MortarPosition::new
MortarPosition(name, elevation, x, y, ammo_type) ==
    [name |-> name, elevation |-> elevation, x |-> x, y |-> y,
     ammo_type |-> ammo_type]

\* TargetPosition::new
TargetPosition(name, elevation, x, y, target_type) ==
    [name |-> name, elevation |-> elevation, x |-> x, y |-> y,
     target_type |-> target_type]

\* BTreeMap::insert
Insert(map, key, value) ==
    [x \in DOMAIN map \cup {key} |-> IF x = key THEN value ELSE map[x]]

\* BTreeMap::new
EmptyMap == <<>>

\* ballistics.get(&(kind, r)).and_then(|t| t.elev_at(distance_m))
RingElevation(tables, kind, r, distance_m) ==
    IF <<kind, r>> \in DOMAIN tables
    THEN elev_at(tables[<<kind, r>>], distance_m)
    ELSE None

\* A variant of RingDispersion that passes the two altitudes in the other order.
RingDispersion_swapped(bases, kind, r, mortar_elevation, target_elevation) ==
    IF <<kind, r>> \in DOMAIN bases
    THEN Some(calculate_dispersion(bases[<<kind, r>>], target_elevation,
                                   mortar_elevation))
    ELSE None

\* dispersion_table.get(&(kind, r)).map(|&base| calculate_dispersion(base, ..))
RingDispersion(bases, kind, r, mortar_elevation, target_elevation) ==
    IF <<kind, r>> \in DOMAIN bases
    THEN Some(calculate_dispersion(bases[<<kind, r>>], mortar_elevation,
                                   target_elevation))
    ELSE None

\* The loop `for r in rings` filling ring_solutions, from its i-th iteration on.
RECURSIVE RingSolutions(_, _, _, _, _)
RingSolutions(acc, i, tables, kind, distance_m) ==
    IF i > Len(rings) THEN acc
    ELSE RingSolutions(Insert(acc, RingKey(rings[i]),
                              RingElevation(tables, kind, rings[i], distance_m)),
                       i + 1, tables, kind, distance_m)

\* The loop `for r in rings` filling ring_dispersions, from its i-th iteration on.
RECURSIVE RingDispersions(_, _, _, _, _, _)
RingDispersions(acc, i, bases, kind, mortar_elevation, target_elevation) ==
    IF i > Len(rings) THEN acc
    ELSE RingDispersions(Insert(acc, RingKey(rings[i]),
                                RingDispersion(bases, kind, rings[i],
                                               mortar_elevation, target_elevation)),
                         i + 1, bases, kind, mortar_elevation, target_elevation)

\* The loop `for kind in kinds` filling solutions, from its i-th iteration on.
RECURSIVE KindSolutions(_, _, _, _)
KindSolutions(acc, i, tables, distance_m) ==
    IF i > Len(AmmoKind_all) THEN acc
    ELSE KindSolutions(Insert(acc, AmmoKind_as_str(AmmoKind_all[i]),
                              RingSolutions(EmptyMap, 1, tables, AmmoKind_all[i],
                                            distance_m)),
                       i + 1, tables, distance_m)

\* The loop `for kind in kinds` filling dispersions, from its i-th iteration on.
RECURSIVE KindDispersions(_, _, _, _, _)
KindDispersions(acc, i, bases, mortar_elevation, target_elevation) ==
    IF i > Len(AmmoKind_all) THEN acc
    ELSE KindDispersions(Insert(acc, AmmoKind_as_str(AmmoKind_all[i]),
                                RingDispersions(EmptyMap, 1, bases, AmmoKind_all[i],
                                                mortar_elevation, target_elevation)),
                         i + 1, bases, mortar_elevation, target_elevation)

\* A variant of selected_ammo that selects the projectile recommended for the
\* target instead of the loaded one.
selected_ammo_recommended(m, t) == suggested_ammo(t.target_type)

\* let selected_ammo = mortar.ammo_type;
selected_ammo(m, t) == m.ammo_type

\* Whether some call of elev_at behind the cells of a ring map panicked.
RowPanicked(row) == \E key \in DOMAIN row : row[key].tag = "Panic"

\* calculate_solution_with_dispersion.  The call panics when one of its calls
\* of elev_at does.  The bearing (azimuth_deg) is left out of the record.
calculate_solution_with_dispersion(m, t, tables, bases) ==
    LET mortar_pos == as_position(m)
        target_pos == as_position(t)
        distance_m == distance_to(mortar_pos, target_pos)
        solutions == KindSolutions(EmptyMap, 1, tables, distance_m)
        dispersions == KindDispersions(EmptyMap, 1, bases, m.elevation, t.elevation)
        selected_elevations ==
            RingSolutions(EmptyMap, 1, tables, selected_ammo(m, t), distance_m)
        selected_dispersions ==
            RingDispersions(EmptyMap, 1, bases, selected_ammo(m, t),
                            m.elevation, t.elevation)
    IN  IF \/ \E label \in DOMAIN solutions : RowPanicked(solutions[label])
           \/ RowPanicked(selected_elevations)
        THEN [tag |-> "Panicked"]
        ELSE [tag |-> "Returned",
              distance_m |-> distance_m,
              elevation_diff_m |-> elevation_difference(mortar_pos, target_pos),
              signed_elevation_diff_m |-> FSub(m.elevation, t.elevation),
              mortar_ammo |-> AmmoKind_as_str(m.ammo_type),
              target_type |-> TargetType_as_str(t.target_type),
              recommended_ammo |-> AmmoKind_as_str(suggested_ammo(t.target_type)),
              solutions |-> solutions,
              dispersions |-> dispersions,
              selected_solution |->
                  [tag |-> "Some",
                   ammo_type |-> AmmoKind_as_str(selected_ammo(m, t)),
                   elevations |-> selected_elevations,
                   dispersions |-> selected_dispersions]]

----------------------------------------------------------------------------
(* Correction                                                               *)

\* str::ends_with
ends_with(s, suffix) ==
    /\ Len(s) >= Len(suffix)
    /\ SubSeq(s, Len(s) - Len(suffix) + 1, Len(s)) = suffix

\* A variant of corrected_name that appends the suffix to every name.
corrected_name_chained(name) == name \o "_C"

\* The corrected_name of apply_correction.
corrected_name(name) == IF ends_with(name, "_C") THEN name ELSE name \o "_C"

\* A variant of apply_correction that adds the deviation to the coordinates.
apply_correction_added(t, vertical_m, horizontal_m) ==
    LET corrected_x == FAdd(t.x, horizontal_m)
        corrected_y == FAdd(t.y, vertical_m)
    IN  TargetPosition(corrected_name(t.name), t.elevation, corrected_x,
                       corrected_y, t.target_type)

\* apply_correction
apply_correction(t, vertical_m, horizontal_m) ==
    LET corrected_x == FSub(t.x, horizontal_m)
        corrected_y == FSub(t.y, vertical_m)
    IN  TargetPosition(corrected_name(t.name), t.elevation, corrected_x,
                       corrected_y, t.target_type)

----------------------------------------------------------------------------
(* PCHIP (src/src/pchip.rs; smooth_csv.rs holds an identical copy)          *)

\* f64::signum: 1.0 for a positive number and for 0.0, -1.0 for a negative
\* one, NaN for NaN.
signum(a) == IF is_nan(a) THEN NaN ELSE IF a.n < 0 THEN Fin(-1) ELSE Fin(1)

\* a != b on f64
FNe(a, b) == ~FEq(a, b)

Ok(v) == [tag |-> "Ok", v |-> v]
Err(msg) == [tag |-> "Err", msg |-> msg]
Aborted == [tag |-> "Panic"]

\* h[i] = x[i + 1] - x[i]
h_of(x) == [i \in 1..(Len(x) - 1) |-> FSub(x[i + 1], x[i])]

\* delta[i] = (y[i + 1] - y[i]) / h[i]
delta_of(x, y) ==
    [i \in 1..(Len(x) - 1) |-> FDiv(FSub(y[i + 1], y[i]), h_of(x)[i])]

\* A variant of edge_slope without the cap at three times the secant.
edge_slope_uncapped(h0, h1, del0, del1) ==
    LET d0 == FDiv(FSub(FMul(FAdd(FMul(Fin(2), h0), h1), del0), FMul(h0, del1)),
                   FAdd(h0, h1))
    IN  IF FNe(signum(d0), signum(del0)) THEN Fin(0) ELSE d0

\* The slope at an end of the table (the blocks "d0" and "dn-1"): h0 and
\* del0 belong to the segment at that end, h1 and del1 to the next one in.
edge_slope(h0, h1, del0, del1) ==
    LET d0 == FDiv(FSub(FMul(FAdd(FMul(Fin(2), h0), h1), del0), FMul(h0, del1)),
                   FAdd(h0, h1))
    IN  IF FNe(signum(d0), signum(del0)) THEN Fin(0)
        ELSE IF FNe(signum(del0), signum(del1))
                  /\ FGt(FAbs(d0), FMul(Fin(3), FAbs(del0)))
             THEN FMul(Fin(3), del0)
        ELSE d0

\* A variant of interior_slope: the harmonic mean with equal weights.
interior_slope_unweighted(h_prev, h_next, del_prev, del_next) ==
    IF FEq(del_prev, Fin(0)) \/ FEq(del_next, Fin(0))
          \/ FNe(signum(del_prev), signum(del_next))
    THEN Fin(0)
    ELSE FDiv(Fin(2), FAdd(FDiv(Fin(1), del_prev), FDiv(Fin(1), del_next)))

\* A variant of interior_slope: the plain mean of the two secants.
interior_slope_mean(h_prev, h_next, del_prev, del_next) ==
    FDiv(FAdd(del_prev, del_next), Fin(2))

\* The slope at an interior sample, between the segments (h_prev, del_prev)
\* and (h_next, del_next).
interior_slope(h_prev, h_next, del_prev, del_next) ==
    IF FEq(del_prev, Fin(0)) \/ FEq(del_next, Fin(0))
          \/ FNe(signum(del_prev), signum(del_next))
    THEN Fin(0)
    ELSE LET w1 == FAdd(FMul(Fin(2), h_next), h_prev)
             w2 == FAdd(h_next, FMul(Fin(2), h_prev))
         IN  FDiv(FAdd(w1, w2), FAdd(FDiv(w1, del_prev), FDiv(w2, del_next)))

\* pchip_slopes
pchip_slopes(x, y) ==
    LET n == Len(x)
        h == h_of(x)
        delta == delta_of(x, y)
    IN  IF n < 2 THEN Err("Need at least 2 points")
        ELSE IF \E i \in 1..(n - 1) : FLe(h[i], Fin(0))
             THEN Err("x must be strictly increasing")
        ELSE IF n = 2 THEN Ok(<<delta[1], delta[1]>>)
        ELSE Ok([i \in 1..n |->
                    IF i = 1 THEN edge_slope(h[1], h[2], delta[1], delta[2])
                    ELSE IF i = n
                         THEN edge_slope(h[n - 1], h[n - 2], delta[n - 1], delta[n - 2])
                    ELSE interior_slope(h[i - 1], h[i], delta[i - 1], delta[i])])

\* The samples (x[i], y[i]) as points, for the binary search.
Knots(x, y) == [i \in 1..Len(x) |-> BallisticPoint(x[i], y[i])]

\* The cubic Hermite form of pchip_eval on the segment from (x0, y0) with
\* slope d0 to (x1, y1) with slope d1.
hermite(x0, x1, y0, y1, d0, d1, xq) ==
    LET h == FSub(x1, x0)
        t == FDiv(FSub(xq, x0), h)
        one_t == FSub(Fin(1), t)
        h00 == FMul(FMul(FAdd(Fin(1), FMul(Fin(2), t)), one_t), one_t)
        h10 == FMul(FMul(t, one_t), one_t)
        h01 == FMul(FMul(t, t), FSub(Fin(3), FMul(Fin(2), t)))
        h11 == FMul(FMul(t, t), FSub(t, Fin(1)))
    IN  FAdd(FAdd(FAdd(FMul(h00, y0), FMul(FMul(h10, h), d0)), FMul(h01, y1)),
             FMul(FMul(h11, h), d1))

\* A variant of pchip_eval that takes the segment below an exact hit.
pchip_eval_segment_below(x, y, d, xq) ==
    LET n == Len(x)
        s == binary_search_by(Knots(x, y), xq, 0, n)
        i == s.i - 1
    IN  IF n = 0 \/ s.tag = "Panic" \/ i < 0 \/ i + 2 > n THEN Aborted
        ELSE IF FLt(xq, x[1]) \/ FGt(xq, x[n]) THEN Err("Query out of bounds")
        ELSE Ok(FAdd(y[i + 1], FMul(d[i + 1], FSub(xq, x[i + 1]))))

\* pchip_eval.  It panics on an empty table (x[0]), in the comparator of the
\* search (partial_cmp(..).unwrap() on a NaN), and on an index outside the
\* table.
pchip_eval(x, y, d, xq) ==
    LET n == Len(x)
        s == binary_search_by(Knots(x, y), xq, 0, n)
        i == IF s.tag = "Ok" THEN s.i ELSE s.i - 1
    IN  IF n = 0 THEN Aborted
        ELSE IF FLt(xq, x[1]) \/ FGt(xq, x[n]) THEN Err("Query out of bounds")
        ELSE IF s.tag = "Panic" THEN Aborted
        ELSE IF s.tag = "Ok" /\ s.i = n - 1 THEN Ok(y[n])
        ELSE IF i < 0 \/ i + 2 > n THEN Aborted
        ELSE Ok(hermite(x[i + 1], x[i + 2], y[i + 1], y[i + 2],
                        d[i + 1], d[i + 2], xq))

----------------------------------------------------------------------------
(* Values of the variables a specification does not use                     *)

NoCall == [tag |-> "NoCall"]
NoPosition == Position("", Fin(0), Fin(0), Fin(0))
NoMortar == MortarPosition("", Fin(0), Fin(0), Fin(0), "He")
NoTarget == TargetPosition("", Fin(0), Fin(0), Fin(0), "Infanterie")

SolutionIdle ==
    /\ mortar = NoMortar
    /\ ballistics = EmptyMap
    /\ dispersion_table = EmptyMap
    /\ solution = NoCall

TableIdle ==
    /\ rows = <<>>
    /\ table = NoCall
    /\ query = Fin(0)
    /\ elev = NoCall

DispersionIdle == dispersion = NoCall

CorrectionIdle ==
    /\ deviation = <<Fin(0), Fin(0)>>
    /\ corrected = NoCall
    /\ history = <<>>

GeometryIdle ==
    /\ pos_a = NoPosition
    /\ pos_b = NoPosition
    /\ distances = NoCall
    /\ azimuth = NoCall

PchipIdle ==
    /\ pchip_x = <<>>
    /\ pchip_y = <<>>
    /\ pchip_d = NoCall
    /\ pchip_xq = Fin(0)
    /\ pchip_with = <<>>
    /\ pchip_v = NoCall

ToolIdle ==
    /\ tool_args = NoCall
    /\ tool_input = NoCall
    /\ tool_pc = "idle"
    /\ tool_pts = <<>>
    /\ tool_fit = NoCall
    /\ tool_r = 0
    /\ tool_out_rows = <<>>
    /\ tool_out_file = NoCall
    /\ tool_exit = NoCall

LoaderIdle ==
    /\ data_dir = <<>>
    /\ metrics_json = <<>>
    /\ loaded = {}

ServerIdle ==
    /\ srv_mortars = <<>>
    /\ srv_targets = <<>>
    /\ srv_lock = <<>>
    /\ srv_req = <<>>
    /\ srv_out = NoCall
    /\ srv_served = 0
    /\ srv_up = FALSE

solution_vars == <<mortar, ballistics, dispersion_table, solution>>
table_vars == <<rows, table, query, elev>>
correction_vars == <<deviation, corrected, history>>
geometry_vars == <<pos_a, pos_b, distances, azimuth>>
pchip_vars == <<pchip_x, pchip_y, pchip_d, pchip_xq, pchip_with, pchip_v>>
tool_vars == <<tool_args, tool_input, tool_pc, tool_pts, tool_fit, tool_r,
               tool_out_rows, tool_out_file, tool_exit>>
loader_vars == <<data_dir, metrics_json, loaded>>
server_vars == <<srv_mortars, srv_targets, srv_lock, srv_req, srv_out,
                 srv_served, srv_up>>

----------------------------------------------------------------------------
(* Loading a range table and looking ranges up in it                        *)

\* The most rows a CSV file holds.
MaxRows == 3

\* A deserialized row of the CSV file; ok = FALSE for a row that fails to
\* deserialize.
Row(range_m, elev_mil) == [ok |-> TRUE, range_m |-> range_m, elev_mil |-> elev_mil]
BadRow == [ok |-> FALSE, range_m |-> Fin(0), elev_mil |-> Fin(0)]

RowValues ==
    {Row(Fin(0), Fin(1000)), Row(Fin(0), Fin(950)), Row(Fin(100), Fin(900)),
     Row(Fin(200), Fin(700)), Row(NaN, Fin(900)), Row(Fin(100), PInf),
     Row(NInf, Fin(800)), BadRow}

RowSeqs == UNION {[1..n -> RowValues] : n \in 0..MaxRows}

Queries ==
    {Fin(-10), Fin(0), Fin(50), Fin(100), Fin(125), Fin(200), Fin(250),
     NaN, PInf, NInf}

TableInit ==
    /\ rows \in RowSeqs
    /\ table = NoCall
    /\ query = Fin(0)
    /\ elev = NoCall
    /\ SolutionIdle /\ DispersionIdle /\ CorrectionIdle /\ GeometryIdle
    /\ PchipIdle /\ ToolIdle /\ LoaderIdle /\ ServerIdle
    /\ target = NoTarget

\* let t = BallisticTable::from_csv(path)
LoadCsv ==
    /\ table.tag = "NoCall"
    /\ table' = from_csv(rows)
    /\ UNCHANGED <<rows, query, elev>>
    /\ UNCHANGED <<solution_vars, target, dispersion, correction_vars, geometry_vars,
                 pchip_vars, tool_vars, loader_vars, server_vars>>

\* t.elev_at(q)
ElevAt ==
    /\ table.tag = "Ok"
    /\ elev.tag = "NoCall"
    /\ \E q \in Queries :
          /\ query' = q
          /\ elev' = elev_at(table.points, q)
    /\ UNCHANGED <<rows, table>>
    /\ UNCHANGED <<solution_vars, target, dispersion, correction_vars, geometry_vars,
                 pchip_vars, tool_vars, loader_vars, server_vars>>

TableNext == LoadCsv \/ ElevAt

SpecTable == TableInit /\ [][TableNext]_vars

\* The smallest and the largest range stored in a non-empty table.
MinRange(points) ==
    CHOOSE r \in {points[i].range_m : i \in 1..Len(points)} :
        \A i \in 1..Len(points) : FLe(r, points[i].range_m)
MaxRange(points) ==
    CHOOSE r \in {points[i].range_m : i \in 1..Len(points)} :
        \A i \in 1..Len(points) : FGe(r, points[i].range_m)

Looked == table.tag = "Ok" /\ elev.tag # "NoCall"

OnChord(v, p0, p1, q) ==
    FEq(FMul(FSub(v, p0.elev_mil), FSub(p1.range_m, p0.range_m)),
        FMul(FSub(q, p0.range_m), FSub(p1.elev_mil, p0.elev_mil)))

\* C5: for a table of at least 2 samples and a query inside its bounds,
\* elev_at returns the stored elevation of a sample whose range equals the
\* query when there is one, and otherwise the linear interpolation between the
\* two adjacent samples with r0 < query < r1.
C5_ExactOrInterpolated ==
    (/\ Looked
     /\ Len(table.points) >= 2
     /\ FGe(query, MinRange(table.points))
     /\ FLe(query, MaxRange(table.points))) =>
        LET pts == table.points
            hits == {i \in 1..Len(pts) : pts[i].range_m = query}
        IN  /\ elev.tag = "Some"
            /\ IF hits # {}
               THEN \E i \in hits : elev.v = pts[i].elev_mil
               ELSE \E i \in 1..(Len(pts) - 1) :
                       /\ FLt(pts[i].range_m, query)
                       /\ FLt(query, pts[i + 1].range_m)
                       /\ OnChord(elev.v, pts[i], pts[i + 1], query)

\* A query strictly between the second and the third of three stored ranges.
C5_Witness ==
    /\ Looked
    /\ Len(table.points) = 3
    /\ FLt(table.points[2].range_m, query)
    /\ FLt(query, table.points[3].range_m)
    /\ elev.tag = "Some"
    /\ elev.v = Fin(850)

\* The elevation of the last row of rs whose range is r.
RECURSIVE LastElevation(_, _)
LastElevation(rs, r) ==
    IF rs[Len(rs)].range_m = r THEN rs[Len(rs)].elev_mil
    ELSE LastElevation(SubSeq(rs, 1, Len(rs) - 1), r)

\* C6: a table built by from_csv holds no non-finite sample, is strictly
\* increasing by range, and for a range carried by several input rows keeps
\* only the elevation of the last such row.
C6_StrictlyIncreasingLastWins ==
    table.tag = "Ok" =>
        LET pts == table.points
            kept == FinitePoints(rows)
        IN  /\ \A i \in 1..Len(pts) :
                   is_finite(pts[i].range_m) /\ is_finite(pts[i].elev_mil)
            /\ \A i \in 1..(Len(pts) - 1) : FLt(pts[i].range_m, pts[i + 1].range_m)
            /\ \A i \in 1..Len(pts) :
                   pts[i].elev_mil = LastElevation(kept, pts[i].range_m)

\* Tables whose elevations are near 2^30 mils, where binary64 has a spacing
\* of 2^-22: the ranges r0 = 125 - 2^-23, r0 + 2 and r0 + 4.
HighRowValues ==
    {Row(Rat(1048575999, 8388608), Fin(1073741824)),
     Row(Rat(1065353215, 8388608), Fin(1073741825)),
     Row(Rat(1065353215, 8388608), Fin(1073741824)),
     Row(Rat(1082130431, 8388608), Fin(1073741823))}

HighRowSeqs == UNION {[1..n -> HighRowValues] : n \in 0..MaxRows}

HighTableInit ==
    /\ rows \in HighRowSeqs
    /\ table = NoCall
    /\ query = Fin(0)
    /\ elev = NoCall
    /\ SolutionIdle /\ DispersionIdle /\ CorrectionIdle /\ GeometryIdle
    /\ PchipIdle /\ ToolIdle /\ LoaderIdle /\ ServerIdle
    /\ target = NoTarget

SpecHighTable == HighTableInit /\ [][TableNext]_vars

\* v is between e0 and e1, ends included.
Between(v, e0, e1) ==
    \/ FLe(e0, v) /\ FLe(v, e1)
    \/ FLe(e1, v) /\ FLe(v, e0)

\* v is between e0 and e1, ends excluded.
StrictlyBetween(v, e0, e1) ==
    \/ FLt(e0, v) /\ FLt(v, e1)
    \/ FLt(e1, v) /\ FLt(v, e0)

\* C26: a value returned by elev_at lies between the elevations of two
\* adjacent samples that bracket the query, strictly between them when the
\* query is strictly between their ranges and their elevations differ, and
\* so within the elevations stored in the table.
C26_BetweenBracketingSamples ==
    (Looked /\ elev.tag = "Some") =>
        LET pts == table.points
            adjacent == 1..(Len(pts) - 1)
        IN  /\ \E i \in adjacent :
                  /\ FLe(pts[i].range_m, query)
                  /\ FLe(query, pts[i + 1].range_m)
                  /\ Between(elev.v, pts[i].elev_mil, pts[i + 1].elev_mil)
            /\ \A i \in adjacent :
                  (/\ FLt(pts[i].range_m, query)
                   /\ FLt(query, pts[i + 1].range_m)
                   /\ pts[i].elev_mil # pts[i + 1].elev_mil) =>
                      StrictlyBetween(elev.v, pts[i].elev_mil, pts[i + 1].elev_mil)
            /\ \E i \in 1..Len(pts) : FLe(pts[i].elev_mil, elev.v)
            /\ \E i \in 1..Len(pts) : FGe(pts[i].elev_mil, elev.v)

----------------------------------------------------------------------------
(* Computing a firing solution                                              *)

Keys == {<<kind, r>> : kind \in AmmoKind, r \in 0..4}

\* The table of the unit test, a table further out, a table of one sample.
TableNear == <<BallisticPoint(Fin(0), Fin(1200)), BallisticPoint(Fin(600), Fin(1100))>>
TableFar == <<BallisticPoint(Fin(400), Fin(900)), BallisticPoint(Fin(500), Fin(800)),
              BallisticPoint(Fin(700), Fin(750))>>
TableShort == <<BallisticPoint(Fin(500), Fin(1000))>>

\* The keys the loader fills: no ring 0 for Smoke and Flare.
LoaderKeys == Keys \ {<<"Smoke", 0>>, <<"Flare", 0>>}

BallisticsChoices ==
    {EmptyMap}
    \cup {[key \in {k} |-> TableNear] : k \in Keys}
    \cup {[key \in {<<"He", 2>>} |-> t] : t \in {TableFar, TableShort, <<>>}}
    \cup {[key \in LoaderKeys |-> IF key[2] = 2 THEN TableFar ELSE TableNear]}

DispersionChoices ==
    {EmptyMap}
    \cup {[key \in {k} |-> Fin(39)] : k \in Keys}
    \cup {[key \in LoaderKeys |-> Fin(10 + 15 * key[2])]}

SolutionMortars ==
    {MortarPosition("M1", Fin(100), x, Fin(0), ammo) :
        x \in {Fin(0), NaN}, ammo \in AmmoKind}

SolutionTargets ==
    {TargetPosition("T1", p[1], p[2], p[3], tt) :
        p \in {<<Fin(50), Fin(300), Fin(400)>>, <<Fin(100), Fin(0), Fin(400)>>,
               <<Fin(250), Fin(0), Fin(0)>>, <<Fin(100), PInf, Fin(0)>>},
        tt \in TargetType}

SolutionInit ==
    /\ mortar \in SolutionMortars
    /\ target \in SolutionTargets
    /\ ballistics \in BallisticsChoices
    /\ dispersion_table \in DispersionChoices
    /\ solution = NoCall
    /\ TableIdle /\ DispersionIdle /\ CorrectionIdle /\ GeometryIdle
    /\ PchipIdle /\ ToolIdle /\ LoaderIdle /\ ServerIdle

\* let solution = calculate_solution_with_dispersion(&mortar, &target,
\*                                                   &ballistics, &dispersions)
Calculate ==
    /\ solution.tag = "NoCall"
    /\ solution' = calculate_solution_with_dispersion(mortar, target, ballistics,
                                                      dispersion_table)
    /\ UNCHANGED <<mortar, target, ballistics, dispersion_table>>
    /\ UNCHANGED <<table_vars, dispersion, correction_vars, geometry_vars,
                 pchip_vars, tool_vars, loader_vars, server_vars>>

SolutionNext == Calculate

Spec == SolutionInit /\ [][SolutionNext]_vars

KindLabels == {"PRACTICE", "HE", "SMOKE", "FLARE"}
RingLabels == {"0R", "1R", "2R", "3R", "4R"}
LabelOfKind ==
    [Practice |-> "PRACTICE", He |-> "HE", Smoke |-> "SMOKE", Flare |-> "FLARE"]
LabelOfRing == <<"0R", "1R", "2R", "3R", "4R">>

\* One matrix: a map from the 4 kind labels to maps from the 5 ring labels.
FullMatrix(m) ==
    /\ DOMAIN m = KindLabels
    /\ \A label \in KindLabels : DOMAIN m[label] = RingLabels

\* C1: calculate_solution_with_dispersion returns a result for every input and
\* never fails; both matrices hold exactly one entry per kind and, under each
\* kind, one entry per ring 0R..4R; with both tables empty every cell is None.
C1_AlwaysFullMatrix ==
    solution.tag # "NoCall" =>
        /\ solution.tag = "Returned"
        /\ FullMatrix(solution.solutions)
        /\ FullMatrix(solution.dispersions)
        /\ (ballistics = EmptyMap /\ dispersion_table = EmptyMap) =>
               \A label \in KindLabels, ring \in RingLabels :
                   /\ solution.solutions[label][ring] = None
                   /\ solution.dispersions[label][ring] = None

\* C2: in a returned result, the elevation cell of (kind, ring) is elev_at of
\* the table stored under that key at the distance, None without a table; the
\* dispersion cell is calculate_dispersion of the base stored under the key
\* and the two altitudes, None without a base, whatever the elevation cell is.
C2_CellsFollowTheirKey ==
    solution.tag = "Returned" =>
        \A key \in Keys :
            LET e == solution.solutions[LabelOfKind[key[1]]][LabelOfRing[key[2] + 1]]
                d == solution.dispersions[LabelOfKind[key[1]]][LabelOfRing[key[2] + 1]]
            IN  /\ e = IF key \in DOMAIN ballistics
                       THEN elev_at(ballistics[key], solution.distance_m)
                       ELSE None
                /\ d = IF key \in DOMAIN dispersion_table
                       THEN Some(calculate_dispersion(dispersion_table[key],
                                                      mortar.elevation,
                                                      target.elevation))
                       ELSE None

\* A dispersion cell is present while the elevation cell of its key is None,
\* and the altitudes differ.
C2_Witness ==
    /\ solution.tag = "Returned"
    /\ mortar.elevation # target.elevation
    /\ solution.solutions["SMOKE"]["3R"].tag = "None"
    /\ solution.dispersions["SMOKE"]["3R"].tag = "Some"
    /\ solution.solutions["HE"]["2R"].tag = "Some"

\* C3: in a returned result the selected solution is present, is labelled with
\* the loaded projectile (as is mortar_ammo), and its two ring maps are the
\* rows of the loaded projectile in the two matrices.
C3_SelectedIsLoadedRow ==
    solution.tag = "Returned" =>
        LET sel == solution.selected_solution
            label == LabelOfKind[mortar.ammo_type]
        IN  /\ sel.tag = "Some"
            /\ sel.ammo_type = label
            /\ solution.mortar_ammo = label
            /\ DOMAIN sel.elevations = RingLabels
            /\ DOMAIN sel.dispersions = RingLabels
            /\ \A ring \in RingLabels :
                   /\ sel.elevations[ring] = solution.solutions[label][ring]
                   /\ sel.dispersions[ring] = solution.dispersions[label][ring]

\* Smoke is loaded against a target for which Smoke is not the recommended
\* projectile, and the selected row holds an elevation and a dispersion.
C3_Witness ==
    /\ solution.tag = "Returned"
    /\ mortar.ammo_type = "Smoke"
    /\ target.target_type = "Infanterie"
    /\ solution.selected_solution.elevations["1R"].tag = "Some"
    /\ solution.selected_solution.dispersions["1R"].tag = "Some"

\* The advisory mapping as the labels of the result: INFANTERIE -> HE,
\* VEHICULE -> HE, SOUTIEN -> SMOKE.
RecommendedLabel ==
    [INFANTERIE |-> "HE", VEHICULE |-> "HE", SOUTIEN |-> "SMOKE"]

\* C12: the recommended projectile of a returned result is the fixed mapping
\* of the target's class alone (Infanterie -> HE, Vehicule -> HE,
\* Soutien -> SMOKE), whatever projectile is loaded and whatever the two
\* tables hold.
C12_RecommendedFollowsClass ==
    solution.tag = "Returned" =>
        /\ solution.recommended_ammo = RecommendedLabel[solution.target_type]
        /\ target.target_type = "Infanterie" => solution.recommended_ammo = "HE"
        /\ target.target_type = "Vehicule" => solution.recommended_ammo = "HE"
        /\ target.target_type = "Soutien" => solution.recommended_ammo = "SMOKE"

\* A vehicle engaged with flares loaded and both tables populated: HE is
\* recommended all the same.
C12_Witness ==
    /\ solution.tag = "Returned"
    /\ target.target_type = "Vehicule"
    /\ mortar.ammo_type = "Flare"
    /\ DOMAIN ballistics = LoaderKeys
    /\ DOMAIN dispersion_table = LoaderKeys
    /\ solution.mortar_ammo = "FLARE"
    /\ solution.recommended_ammo = "HE"

----------------------------------------------------------------------------
(* Adjusting a dispersion                                                   *)

DispersionBases == {0, 10, 39, 54, 69}
FiringAltitudes == {0, 90, 100, 105, 250}
TargetAltitudes == {100, 200, 350}

DispersionInit ==
    /\ \E b \in DispersionBases, m \in FiringAltitudes, t \in TargetAltitudes :
          dispersion = [tag |-> "Args", base |-> b, mortar_elevation |-> m,
                        target_elevation |-> t]
    /\ SolutionIdle /\ TableIdle /\ CorrectionIdle /\ GeometryIdle
    /\ PchipIdle /\ ToolIdle /\ LoaderIdle /\ ServerIdle
    /\ target = NoTarget

\* let disp = calculate_dispersion(base, mortar_elevation, target_elevation)
CalculateDispersion ==
    /\ dispersion.tag = "Args"
    /\ dispersion' =
           [tag |-> "Returned", base |-> dispersion.base,
            mortar_elevation |-> dispersion.mortar_elevation,
            target_elevation |-> dispersion.target_elevation,
            result |-> calculate_dispersion(Fin(dispersion.base),
                                            Fin(dispersion.mortar_elevation),
                                            Fin(dispersion.target_elevation))]
    /\ UNCHANGED <<solution_vars, target, table_vars, correction_vars, geometry_vars,
                 pchip_vars, tool_vars, loader_vars, server_vars>>

DispersionNext == CalculateDispersion

SpecDispersion == DispersionInit /\ [][DispersionNext]_vars

\* C7: with delta = firing altitude - target altitude, calculate_dispersion is
\* base * (1 + delta * 0.05) for delta >= 0 and base * (1 + delta * 0.01) for
\* delta < 0, with no floor: for base > 0 it is zero at delta = -100 and
\* negative below, and it is base when the altitudes are equal.
C7_DispersionFormula ==
    dispersion.tag = "Returned" =>
        LET base == dispersion.base
            delta == dispersion.mortar_elevation - dispersion.target_elevation
            hundredths == IF delta >= 0 THEN base * (100 + 5 * delta)
                          ELSE base * (100 + delta)
            result == dispersion.result
        IN  /\ is_finite(result)
            /\ result.n * 100 = hundredths * result.d
            /\ (base > 0 /\ delta = -100) => result.n = 0
            /\ (base > 0 /\ delta < -100) => result.n < 0
            /\ delta = 0 => result = Fin(base)

\* A positive base adjusted for a firing point more than 100 m below the target.
C7_Witness ==
    /\ dispersion.tag = "Returned"
    /\ dispersion.base = 39
    /\ dispersion.mortar_elevation - dispersion.target_elevation = -110
    /\ dispersion.result = Rat(-39, 10)

----------------------------------------------------------------------------
(* Correcting a target                                                      *)

\* The most corrections applied one after the other.
MaxCorrections == 2

CorrectionNames == {"T1", "T1_C", "_C", "C", "", "T_", "T_C_", "_C_C"}
Verticals == {Fin(-50), Fin(0), Fin(20)}
Horizontals == {Fin(30), Fin(0), NaN}

CorrectionInit ==
    /\ \E name \in CorrectionNames, tt \in {"Infanterie", "Soutien"} :
          target = TargetPosition(name, Fin(100), Fin(500), Fin(300), tt)
    /\ deviation = <<Fin(0), Fin(0)>>
    /\ corrected = NoCall
    /\ history = <<>>
    /\ SolutionIdle /\ TableIdle /\ DispersionIdle /\ GeometryIdle
    /\ PchipIdle /\ ToolIdle /\ LoaderIdle /\ ServerIdle

\* let corrected = apply_correction(&target, vertical_m, horizontal_m)
ApplyCorrection ==
    /\ corrected.tag = "NoCall"
    /\ \E v \in Verticals, h \in Horizontals :
          /\ deviation' = <<v, h>>
          /\ corrected' = [tag |-> "Returned", t |-> apply_correction(target, v, h)]
    /\ UNCHANGED <<target, history>>
    /\ UNCHANGED <<solution_vars, table_vars, dispersion, geometry_vars,
                 pchip_vars, tool_vars, loader_vars, server_vars>>

\* The caller takes the corrected point as the target of the next correction.
Retarget ==
    /\ corrected.tag = "Returned"
    /\ Len(history) < MaxCorrections
    /\ target' = corrected.t
    /\ history' = Append(history, target.name)
    /\ corrected' = NoCall
    /\ UNCHANGED deviation
    /\ UNCHANGED <<solution_vars, table_vars, dispersion, geometry_vars,
                 pchip_vars, tool_vars, loader_vars, server_vars>>

CorrectionNext == ApplyCorrection \/ Retarget

SpecCorrection == CorrectionInit /\ [][CorrectionNext]_vars

\* Whether a name ends in the two characters "_C".
HasSuffixC(name) ==
    /\ Len(name) >= 2
    /\ SubSeq(name, Len(name) - 1, Len(name)) = "_C"

C8_Fields ==
    corrected.tag = "Returned" =>
        LET c == corrected.t
            v == deviation[1]
            h == deviation[2]
        IN  /\ IF is_finite(h) THEN FAdd(c.x, h) = target.x ELSE is_nan(c.x)
            /\ IF is_finite(v) THEN FAdd(c.y, v) = target.y ELSE is_nan(c.y)
            /\ c.elevation = target.elevation
            /\ c.target_type = target.target_type

\* C8: apply_correction returns x = target.x - horizontal and
\* y = target.y - vertical with the altitude and the classification of the
\* input target, and the call leaves the input target as it was.
C8_CorrectionSubtractsDeviation ==
    /\ []C8_Fields
    /\ [][(corrected.tag = "NoCall" /\ corrected'.tag = "Returned")
              => target' = target]_vars

\* The example of the documentation: (500, 300) corrected by a deviation of
\* 50 m north and 30 m east.
C8_Witness ==
    /\ corrected.tag = "Returned"
    /\ history = <<>>
    /\ deviation = <<Fin(-50), Fin(30)>>
    /\ corrected.t.x = Fin(470)
    /\ corrected.t.y = Fin(350)
    /\ corrected.t.elevation = Fin(100)

\* C9: the returned name is the input name plus "_C" unless the input name
\* already ends in "_C", and is then the input name; so after one or more
\* successive corrections from a name N not ending in "_C" the name is N_C.
C9_SuffixOnce ==
    /\ corrected.tag = "Returned" =>
           corrected.t.name = IF HasSuffixC(target.name) THEN target.name
                              ELSE target.name \o "_C"
    /\ (history # <<>> /\ ~HasSuffixC(history[1])) =>
           /\ target.name = history[1] \o "_C"
           /\ corrected.tag = "Returned" => corrected.t.name = history[1] \o "_C"

\* The third correction in a row that started from "T1".
C9_Witness ==
    /\ corrected.tag = "Returned"
    /\ Len(history) = 2
    /\ history[1] = "T1"
    /\ corrected.t.name = "T1_C"

----------------------------------------------------------------------------
(* Measuring a distance                                                     *)

GeometryPoints ==
    {Position(name, Fin(alt), Fin(x), Fin(y)) :
        name \in {"A", "B"}, alt \in {0, 120}, x \in {0, 300}, y \in {0, 400}}

GeometryInit ==
    /\ pos_a \in GeometryPoints
    /\ pos_b \in GeometryPoints
    /\ distances = NoCall
    /\ azimuth = NoCall
    /\ SolutionIdle /\ TableIdle /\ DispersionIdle /\ CorrectionIdle
    /\ PchipIdle /\ ToolIdle /\ LoaderIdle /\ ServerIdle
    /\ target = NoTarget

\* The three distances taken between the two points as they are now.
Measured(a, b) ==
    [tag |-> "Returned", ab |-> distance_to(a, b), ba |-> distance_to(b, a),
     aa |-> distance_to(a, a)]

\* let d = a.distance_to(&b), b.distance_to(&a), a.distance_to(&a)
Measure ==
    /\ distances.tag = "NoCall"
    /\ distances' = Measured(pos_a, pos_b)
    /\ UNCHANGED <<pos_a, pos_b, azimuth>>
    /\ UNCHANGED <<solution_vars, target, table_vars, dispersion, correction_vars,
                 pchip_vars, tool_vars, loader_vars, server_vars>>

\* One of the two points gets another name and another altitude, and the
\* distances are taken again.
Relabel ==
    /\ distances.tag = "Returned"
    /\ \E name \in {"A", "B", "Z"}, alt \in {0, 120, -40} :
          \/ /\ pos_a' = [pos_a EXCEPT !.name = name, !.elevation = Fin(alt)]
             /\ pos_b' = pos_b
          \/ /\ pos_b' = [pos_b EXCEPT !.name = name, !.elevation = Fin(alt)]
             /\ pos_a' = pos_a
    /\ distances' = Measured(pos_a', pos_b')
    /\ UNCHANGED azimuth
    /\ UNCHANGED <<solution_vars, target, table_vars, dispersion, correction_vars,
                 pchip_vars, tool_vars, loader_vars, server_vars>>

GeometryNext == Measure \/ Relabel

SpecGeometry == GeometryInit /\ [][GeometryNext]_vars

C10_Euclid ==
    distances.tag = "Returned" =>
        LET d == distances.ab
            ax == pos_a.x.n
            ay == pos_a.y.n
            bx == pos_b.x.n
            by == pos_b.y.n
        IN  /\ distances.ab = distances.ba
            /\ distances.aa = Fin(0)
            /\ is_finite(d) /\ d.n >= 0
            /\ d.n * d.n = ((ax - bx) * (ax - bx) + (ay - by) * (ay - by)) * d.d * d.d
            /\ (ax = 0 /\ ay = 0 /\ bx = 300 /\ by = 400) => d = Fin(500)

----------------------------------------------------------------------------
(* Taking a bearing                                                         *)

\* The firing points the bearings are taken from.
BearingOrigins == {<<0, 0>>, <<300, 400>>, <<-100, 50>>}

\* Offsets to the eight compass directions, and none.
CompassOffsets ==
    {<<dx, dy>> : dx \in {-300, 0, 300}, dy \in {-300, 0, 300}}
        \cup {<<0, 100>>, <<100, 0>>, <<0, -100>>, <<-100, 0>>}

\* Targets north of the origin and a power of two off the meridian, to the
\* west (sign -1) or to the east (sign 1): x = sign / 2^a, y = 2^b.
NearMeridian ==
    {Position("B", Fin(0), Rat(sign, Pow2(a)), Fin(Pow2(b))) :
        sign \in {-1, 1}, a \in {0, 10, 20, 30}, b \in {27, 30}}

BearingPairs ==
    {<<Position("A", Fin(0), Fin(o[1]), Fin(o[2])),
       Position("B", Fin(0), Fin(o[1] + c[1]), Fin(o[2] + c[2]))>> :
        o \in BearingOrigins, c \in CompassOffsets}
    \cup {<<Position("A", Fin(0), Fin(0), Fin(0)), b>> : b \in NearMeridian}

BearingInit ==
    /\ \E pair \in BearingPairs :
          /\ pos_a = pair[1]
          /\ pos_b = pair[2]
    /\ distances = NoCall
    /\ azimuth = NoCall
    /\ SolutionIdle /\ TableIdle /\ DispersionIdle /\ CorrectionIdle
    /\ PchipIdle /\ ToolIdle /\ LoaderIdle /\ ServerIdle
    /\ target = NoTarget

\* let az = a.azimuth_to(&b)
AzimuthTo ==
    /\ azimuth.tag = "NoCall"
    /\ azimuth' = [tag |-> "Returned", v |-> azimuth_to(pos_a, pos_b)]
    /\ UNCHANGED <<pos_a, pos_b, distances>>
    /\ UNCHANGED <<solution_vars, target, table_vars, dispersion, correction_vars,
                 pchip_vars, tool_vars, loader_vars, server_vars>>

BearingNext == AzimuthTo

SpecBearing == BearingInit /\ [][BearingNext]_vars

\* 0 <= a < 360
InHalfOpenCircle(a) ==
    /\ ~AngleNegative(a)
    /\ a.deg < 360 \/ (a.deg = 360 /\ a.m < 0)

\* C11: every bearing lies in [0, 360), 360 itself excluded (also for a
\* target slightly west of due north, and for coincident points); due north
\* is 0, due east 90, due south 180 and due west 270.
C11_AzimuthInHalfOpenCircle ==
    azimuth.tag = "Returned" =>
        LET east == pos_b.x.n * pos_a.x.d - pos_a.x.n * pos_b.x.d
            north == pos_b.y.n * pos_a.y.d - pos_a.y.n * pos_b.y.d
        IN  /\ InHalfOpenCircle(azimuth.v)
            /\ (east = 0 /\ north > 0) => azimuth.v = Degrees(0)
            /\ (east > 0 /\ north = 0) => azimuth.v = Degrees(90)
            /\ (east = 0 /\ north < 0) => azimuth.v = Degrees(180)
            /\ (east < 0 /\ north = 0) => azimuth.v = Degrees(270)

----------------------------------------------------------------------------
(* Calling pchip_slopes and pchip_eval                                      *)

\* The most samples handed to pchip_slopes.
MaxKnots == 3

KnotRanges == {Fin(0), Fin(2), Fin(5), NaN}
KnotElevations == {Fin(10), Fin(7), Fin(1)}

\* The samples: sequences of (range, elevation) pairs.
KnotSeqs ==
    UNION {[1..n -> KnotRanges \X KnotElevations] : n \in 0..MaxKnots}

PchipQueries ==
    {Fin(-1), Fin(0), Fin(1), Fin(2), Fin(4), Fin(5), Fin(6), NaN}

\* Slopes a caller may hand to pchip_eval for n samples: all zero, or all -4.
OtherSlopes(n) == {[i \in 1..n |-> Fin(0)], [i \in 1..n |-> Fin(-4)]}

PchipInit ==
    /\ \E knots \in KnotSeqs :
          /\ pchip_x = [i \in 1..Len(knots) |-> knots[i][1]]
          /\ pchip_y = [i \in 1..Len(knots) |-> knots[i][2]]
    /\ pchip_d = NoCall
    /\ pchip_xq = Fin(0)
    /\ pchip_with = <<>>
    /\ pchip_v = NoCall
    /\ SolutionIdle /\ TableIdle /\ DispersionIdle /\ CorrectionIdle
    /\ GeometryIdle /\ ToolIdle /\ LoaderIdle /\ ServerIdle
    /\ target = NoTarget

\* let d = pchip_slopes(&x, &y)
Slopes ==
    /\ pchip_d.tag = "NoCall"
    /\ pchip_d' = pchip_slopes(pchip_x, pchip_y)
    /\ UNCHANGED <<pchip_x, pchip_y, pchip_xq, pchip_with, pchip_v>>
    /\ UNCHANGED <<solution_vars, target, table_vars, dispersion, correction_vars,
                   geometry_vars, tool_vars, loader_vars, server_vars>>

\* pchip_eval(&x, &y, &d, xq), with the slopes of pchip_slopes or others
Eval ==
    /\ pchip_d.tag = "Ok"
    /\ pchip_v.tag = "NoCall"
    /\ \E xq \in PchipQueries, d \in {pchip_d.v} \cup OtherSlopes(Len(pchip_x)) :
          /\ pchip_xq' = xq
          /\ pchip_with' = d
          /\ pchip_v' = pchip_eval(pchip_x, pchip_y, d, xq)
    /\ UNCHANGED <<pchip_x, pchip_y, pchip_d>>
    /\ UNCHANGED <<solution_vars, target, table_vars, dispersion, correction_vars,
                   geometry_vars, tool_vars, loader_vars, server_vars>>

PchipNext == Slopes \/ Eval

SpecPchip == PchipInit /\ [][PchipNext]_vars

\* Some range is not strictly greater than its predecessor.
NotIncreasing(x) == \E i \in 1..(Len(x) - 1) : ~FGt(x[i + 1], x[i])

\* C14: pchip_slopes fails with "insufficient data" on fewer than 2 samples
\* and with "non-monotonic input" when a range is not strictly greater than
\* its predecessor; pchip_eval fails with "query out of domain" when the query
\* is below the first or above the last range; the three failures differ, and
\* in every other case the call returns a value.
C14_ThreeFailuresElseValue ==
    LET n == Len(pchip_x)
        insufficient == Err("Need at least 2 points")
        non_monotonic == Err("x must be strictly increasing")
        out_of_domain == Err("Query out of bounds")
    IN  /\ insufficient # non_monotonic
        /\ insufficient # out_of_domain
        /\ non_monotonic # out_of_domain
        /\ pchip_d.tag # "NoCall" =>
              /\ n < 2 => pchip_d = insufficient
              /\ (n >= 2 /\ NotIncreasing(pchip_x)) => pchip_d = non_monotonic
              /\ (n >= 2 /\ ~NotIncreasing(pchip_x)) => pchip_d.tag = "Ok"
        /\ pchip_v.tag # "NoCall" =>
              IF FLt(pchip_xq, pchip_x[1]) \/ FGt(pchip_xq, pchip_x[n])
              THEN pchip_v = out_of_domain
              ELSE pchip_v.tag = "Ok"

\* C15: on strictly increasing ranges, pchip_eval at a stored range x[i]
\* (the first, an interior one or the last) returns the stored elevation y[i]
\* itself, whatever the slopes are.
C15_StoredRangeGivesStoredElevation ==
    (pchip_v.tag # "NoCall" /\ ~NotIncreasing(pchip_x)) =>
        \A i \in 1..Len(pchip_x) :
            pchip_xq = pchip_x[i] => pchip_v = Ok(pchip_y[i])

\* A query at the interior sample of three, with the slopes of pchip_slopes,
\* the one at that sample not zero.
C15_Witness ==
    /\ pchip_v.tag = "Ok"
    /\ Len(pchip_x) = 3
    /\ pchip_xq = pchip_x[2]
    /\ pchip_with = pchip_d.v
    /\ pchip_d.v[2] # Fin(0)
    /\ pchip_v.v = pchip_y[2]

\* The secant slope of the i-th segment, (y[i+1] - y[i]) / (x[i+1] - x[i]).
Secant(i) ==
    FDiv(FSub(pchip_y[i + 1], pchip_y[i]), FSub(pchip_x[i + 1], pchip_x[i]))

\* The width of the i-th segment.
Width(i) == FSub(pchip_x[i + 1], pchip_x[i])

\* a and b are both positive or both negative.
SameSign(a, b) == FGt(FMul(a, b), Fin(0))

ThreePoint(adj, nxt) ==
    FDiv(FSub(FMul(FAdd(FMul(Fin(2), Width(adj)), Width(nxt)), Secant(adj)),
              FMul(Width(adj), Secant(nxt))),
         FAdd(Width(adj), Width(nxt)))

\* What C24 says of the slope d at the end whose segment is adj.
EndSlopeBounded(d, adj, nxt) ==
    /\ d = Fin(0) \/ SameSign(d, Secant(adj))
    /\ FLe(FAbs(d), FMul(Fin(3), FAbs(Secant(adj))))
    /\ ~SameSign(ThreePoint(adj, nxt), Secant(adj)) => d = Fin(0)
    /\ (/\ FLt(FMul(Secant(adj), Secant(nxt)), Fin(0))
        /\ FGt(FAbs(ThreePoint(adj, nxt)), FMul(Fin(3), FAbs(Secant(adj)))))
          => d = FMul(Fin(3), Secant(adj))

\* C24: on more than two strictly increasing ranges, the slope at each end
\* is zero or has the sign of the secant of the segment at that end and is
\* at most 3 times that secant in magnitude; it is zero when the three-point
\* value differs in sign from that secant (a zero secant included), and it is
\* exactly 3 times that secant when the two nearest secants have opposite
\* signs and the three-point value exceeds that bound.
C24_EndSlopesClamped ==
    (pchip_d.tag = "Ok" /\ ~NotIncreasing(pchip_x) /\ Len(pchip_x) > 2) =>
        LET n == Len(pchip_x)
        IN  /\ EndSlopeBounded(pchip_d.v[1], 1, 2)
            /\ EndSlopeBounded(pchip_d.v[n], n - 1, n - 2)

\* A rise of 4.5 per metre followed by a fall of 1 per metre: the three-point
\* value at the far end is -4.3 and the slope returned is -3.
C24_Witness ==
    /\ pchip_d.tag = "Ok"
    /\ pchip_x = <<Fin(0), Fin(2), Fin(5)>>
    /\ pchip_y = <<Fin(1), Fin(10), Fin(7)>>
    /\ ThreePoint(2, 1) = Rat(-43, 10)
    /\ pchip_d.v[3] = Fin(-3)

----------------------------------------------------------------------------
(* The resampling tool (src/src/bin/smooth_csv.rs)                          *)

\* i32::MAX
I32_MAX == 2147483647

\* x.floor() and x.ceil() of a finite f64, as integers.  (`as i32` saturates;
\* every range of the inputs below is within the i32 range.)
floor(a) == a.n \div a.d
ceil(a) == -((-a.n) \div a.d)

\* A variant of step_rejected that lets a step of 0 through.
step_rejected_negative(step) == step < 0

\* if args.step <= 0
step_rejected(step) == step <= 0

\* A variant of unique_by_range that keeps the first point of each range.
RECURSIVE unique_by_range_keep_first(_)
unique_by_range_keep_first(sorted) ==
    IF sorted = <<>> THEN <<>>
    ELSE LET kept == unique_by_range_keep_first(SubSeq(sorted, 1, Len(sorted) - 1))
             p == sorted[Len(sorted)]
         IN  IF kept # <<>> /\ FEq(kept[Len(kept)].range_m, p.range_m)
             THEN kept
             ELSE Append(kept, p)

\* The loop "Sort and unique by range" on sorted points: a point whose range
\* equals the last kept range replaces that point's elevation.
RECURSIVE unique_by_range(_)
unique_by_range(sorted) ==
    IF sorted = <<>> THEN <<>>
    ELSE LET kept == unique_by_range(SubSeq(sorted, 1, Len(sorted) - 1))
             p == sorted[Len(sorted)]
         IN  IF kept # <<>> /\ FEq(kept[Len(kept)].range_m, p.range_m)
             THEN [kept EXCEPT ![Len(kept)].elev_mil = p.elev_mil]
             ELSE Append(kept, p)

\* A variant of loop_done that leaves the loop at once.
loop_done_at_once(range, x_max) == TRUE

\* The loop `while r <= x_max` is over.
loop_done(range, x_max) == ~(range <= x_max)

\* r + step wrapped around to the negative i32 values, for r + step above
\* i32::MAX.
wrapping_add(range, step) == (range - I32_MAX - 1) + (step - I32_MAX - 1)

OutRow(range_m, elev_mil) == [range_m |-> range_m, elev_mil |-> elev_mil]

NoFile == [created |-> FALSE, rows |-> <<>>]

\* The rows an input file may hold.
ToolRowValues ==
    {Row(Rat(1, 2), Fin(100)), Row(Fin(2), Fin(97)), Row(Fin(4), Fin(96)),
     Row(Fin(4), Fin(90)), Row(Rat(11, 2), Fin(0)), Row(Rat(21, 4), Fin(120)),
     Row(NaN, Fin(50)), BadRow}

\* The most rows of an input file.
MaxToolRows == 3

ToolInputs ==
    {[exists |-> FALSE, opened |-> FALSE, rows |-> <<>>]}
    \cup {[exists |-> TRUE, opened |-> FALSE, rows |-> rs] :
            rs \in UNION {[1..n -> ToolRowValues] : n \in 0..MaxToolRows}}

ToolSteps == {-1, 0, 1, 2, I32_MAX}

ToolInit ==
    /\ tool_args \in [step : ToolSteps]
    /\ tool_input \in ToolInputs
    /\ tool_pc = "start"
    /\ tool_pts = <<>>
    /\ tool_fit = NoCall
    /\ tool_r = 0
    /\ tool_out_rows = <<>>
    /\ tool_out_file = NoFile
    /\ tool_exit = NoCall
    /\ SolutionIdle /\ TableIdle /\ DispersionIdle /\ CorrectionIdle
    /\ GeometryIdle /\ PchipIdle /\ LoaderIdle /\ ServerIdle
    /\ target = NoTarget

\* main returns (or panics) with the outcome e.
Exit(e) ==
    /\ tool_exit' = e
    /\ tool_pc' = "done"

ToolOthers ==
    UNCHANGED <<solution_vars, target, table_vars, dispersion, correction_vars,
                geometry_vars, pchip_vars, loader_vars, server_vars>>

\* let args = Args::parse(); if args.step <= 0 { bail!(..) }
CheckStep ==
    /\ tool_pc = "start"
    /\ IF step_rejected(tool_args.step)
       THEN Exit(Err("--step must be > 0"))
       ELSE tool_pc' = "read" /\ UNCHANGED tool_exit
    /\ UNCHANGED <<tool_args, tool_input, tool_pts, tool_fit, tool_r,
                   tool_out_rows, tool_out_file>>
    /\ ToolOthers

\* csv::Reader::from_path, the loop over the rows (`rec?` fails on a row that
\* does not deserialize) and the test pts.len() < 2.
ReadInput ==
    /\ tool_pc = "read"
    /\ IF ~tool_input.exists
       THEN /\ Exit(Err("Failed to open"))
            /\ UNCHANGED <<tool_input, tool_pts>>
       ELSE /\ tool_input' = [tool_input EXCEPT !.opened = TRUE]
            /\ IF \E i \in 1..Len(tool_input.rows) : ~tool_input.rows[i].ok
               THEN Exit(Err("CSV deserialize error")) /\ UNCHANGED tool_pts
               ELSE /\ tool_pts' = FinitePoints(tool_input.rows)
                    /\ IF Len(tool_pts') < 2
                       THEN Exit(Err("Not enough valid rows"))
                       ELSE tool_pc' = "fit" /\ UNCHANGED tool_exit
    /\ UNCHANGED <<tool_args, tool_fit, tool_r, tool_out_rows, tool_out_file>>
    /\ ToolOthers

\* The sort, the dedup, pchip_slopes and the bounds x_min, x_max of the loop.
Fit ==
    /\ tool_pc = "fit"
    /\ LET u == unique_by_range(sort_by(tool_pts))
           x == [i \in 1..Len(u) |-> u[i].range_m]
           y == [i \in 1..Len(u) |-> u[i].elev_mil]
           d == pchip_slopes(x, y)
       IN  IF d.tag = "Err"
           THEN Exit(d) /\ UNCHANGED <<tool_fit, tool_r>>
           ELSE /\ tool_fit' = [tag |-> "Ok", x |-> x, y |-> y, d |-> d.v,
                                x_max |-> floor(x[Len(x)])]
                /\ tool_r' = ceil(x[1])
                /\ tool_pc' = "loop"
                /\ UNCHANGED tool_exit
    /\ UNCHANGED <<tool_args, tool_input, tool_pts, tool_out_rows, tool_out_file>>
    /\ ToolOthers

\* One turn of `while r <= x_max`: pchip_eval at r, the row pushed, and
\* r += args.step.  An addition that overflows i32 panics in a build with
\* overflow checks and wraps around in a build without them.
EvalRow ==
    /\ tool_pc = "loop"
    /\ ~loop_done(tool_r, tool_fit.x_max)
    /\ LET value == pchip_eval(tool_fit.x, tool_fit.y, tool_fit.d, Fin(tool_r))
       IN  IF value.tag # "Ok"
           THEN Exit(value) /\ UNCHANGED <<tool_r, tool_out_rows>>
           ELSE /\ tool_out_rows' = Append(tool_out_rows, OutRow(tool_r, value.v))
                /\ IF tool_r <= I32_MAX - tool_args.step
                   THEN /\ tool_r' = tool_r + tool_args.step
                        /\ UNCHANGED <<tool_pc, tool_exit>>
                   ELSE \/ Exit(Aborted) /\ UNCHANGED tool_r
                        \/ /\ tool_r' = wrapping_add(tool_r, tool_args.step)
                           /\ UNCHANGED <<tool_pc, tool_exit>>
    /\ UNCHANGED <<tool_args, tool_input, tool_pts, tool_fit, tool_out_file>>
    /\ ToolOthers

\* File::create(&out_path) once the loop is over; it may fail.
CreateOutput ==
    /\ tool_pc = "loop"
    /\ loop_done(tool_r, tool_fit.x_max)
    /\ \/ /\ tool_out_file' = [created |-> TRUE, rows |-> <<>>]
          /\ tool_pc' = "write"
          /\ UNCHANGED tool_exit
       \/ /\ Exit(Err("Failed to create"))
          /\ UNCHANGED tool_out_file
    /\ UNCHANGED <<tool_args, tool_input, tool_pts, tool_fit, tool_r, tool_out_rows>>
    /\ ToolOthers

\* wtr.serialize(row) for every row, wtr.flush(), Ok(())
WriteRows ==
    /\ tool_pc = "write"
    /\ tool_out_file' = [tool_out_file EXCEPT !.rows = tool_out_rows]
    /\ Exit(Ok("Saved"))
    /\ UNCHANGED <<tool_args, tool_input, tool_pts, tool_fit, tool_r, tool_out_rows>>
    /\ ToolOthers

ToolNext == CheckStep \/ ReadInput \/ Fit \/ EvalRow \/ CreateOutput \/ WriteRows

SpecTool == ToolInit /\ [][ToolNext]_vars

Increasing(seq) == \A i \in 1..(Len(seq) - 1) : FLt(seq[i], seq[i + 1])
Decreasing(seq) == \A i \in 1..(Len(seq) - 1) : FGt(seq[i], seq[i + 1])

\* The elevations of the rows computed so far.
OutElevations == [i \in 1..Len(tool_out_rows) |-> tool_out_rows[i].elev_mil]

ValidInput ==
    /\ tool_input.exists
    /\ \A i \in 1..Len(tool_input.rows) : tool_input.rows[i].ok
    /\ \E p, q \in {FinitePoints(tool_input.rows)[i] :
                       i \in 1..Len(FinitePoints(tool_input.rows))} :
           p.range_m # q.range_m

\* The ranges ceil(a) + k * s, k = 0, 1, 2, ..., that are <= floor(b).
StepGrid(a, b, s) == {v \in ceil(a)..floor(b) : (v - ceil(a)) % s = 0}

\* C16: on valid input with smallest range a and largest range b, and a
\* positive step s, the tool ends well and its rows are exactly those of the
\* ranges ceil(a) + k * s <= floor(b), in increasing order, one row each, all
\* inside [a, b]; no evaluation of the loop fails.
C16_RowsOnTheStepGrid ==
    (/\ tool_pc = "done"
     /\ ValidInput
     /\ tool_args.step > 0
     /\ tool_exit # Err("Failed to create")) =>
        LET a == MinRange(FinitePoints(tool_input.rows))
            b == MaxRange(FinitePoints(tool_input.rows))
            written == tool_out_file.rows
        IN  /\ tool_exit = Ok("Saved")
            /\ {written[i].range_m : i \in 1..Len(written)}
                   = StepGrid(a, b, tool_args.step)
            /\ \A i \in 1..(Len(written) - 1) :
                   written[i].range_m < written[i + 1].range_m
            /\ \A i \in 1..Len(written) :
                   /\ FGe(Fin(written[i].range_m), a)
                   /\ FLe(Fin(written[i].range_m), b)

\* C17: with a step <= 0 the tool fails before anything else happens: the
\* input file is never opened, no slope and no row is computed, no output
\* file is created.
C17_NonPositiveStepFailsFirst ==
    tool_args.step <= 0 =>
        /\ tool_pc \in {"start", "done"}
        /\ tool_pc = "done" => tool_exit = Err("--step must be > 0")
        /\ ~tool_input.opened
        /\ tool_pts = <<>>
        /\ tool_fit = NoCall
        /\ tool_out_rows = <<>>
        /\ tool_out_file = NoFile

\* A run with step 0 on a file of three good rows, ended.
C17_Witness ==
    /\ tool_args.step = 0
    /\ tool_pc = "done"
    /\ tool_exit = Err("--step must be > 0")
    /\ tool_input.exists
    /\ Len(FinitePoints(tool_input.rows)) = 3
    /\ ValidInput

\* The failures of the resampler: too few valid rows, the two failures of
\* pchip_slopes, and the failure of pchip_eval.
ResamplerFailures ==
    {Err("Not enough valid rows"), Err("Need at least 2 points"),
     Err("x must be strictly increasing"), Err("Query out of bounds")}

\* C18: a run that ends in a failure of the resampler has created and written
\* no output file; the output file exists only once the loop is over, every
\* row computed.
C18_NoOutputBeforeAllRows ==
    /\ tool_exit \in ResamplerFailures => tool_out_file = NoFile
    /\ tool_out_file.created =>
          /\ tool_fit.tag = "Ok"
          /\ tool_r > tool_fit.x_max
          /\ tool_exit \notin ResamplerFailures

\* A run that failed in pchip_eval after a row had been computed.
C18_Witness ==
    /\ tool_pc = "done"
    /\ tool_exit = Err("Query out of bounds")
    /\ Len(tool_out_rows) >= 1
    /\ tool_out_file = NoFile

\* The ranges of the valid rows read.
ValidRanges == {tool_pts[i].range_m : i \in 1..Len(tool_pts)}

\* pchip_slopes has been called: two valid rows or more were read and the
\* run is past the fit.
SlopesCalled == Len(tool_pts) >= 2 /\ tool_pc # "fit"

C30_LoopVariableNeverOverflows ==
    (ValidInput /\ tool_args.step > 0) =>
        /\ tool_exit # Aborted
        /\ tool_exit # Err("Query out of bounds")
        /\ tool_fit.tag = "Ok" =>
              /\ tool_r >= ceil(tool_fit.x[1])
              /\ \A i \in 1..Len(tool_out_rows) :
                     /\ FLe(tool_fit.x[1], Fin(tool_out_rows[i].range_m))
                     /\ FLe(Fin(tool_out_rows[i].range_m), tool_fit.x[Len(tool_fit.x)])
        /\ tool_pc = "done" => tool_exit \in {Ok("Saved"), Err("Failed to create")}

----------------------------------------------------------------------------
(* Loading the tables                                                       *)

\* str::to_uppercase on the ASCII names of metrics.json, character by
\* character.
RECURSIVE to_uppercase(_)
to_uppercase(s) ==
    IF Len(s) = 0 THEN ""
    ELSE LET lower == "abcdefghijklmnopqrstuvwxyz"
             upper == "ABCDEFGHIJKLMNOPQRSTUVWXYZ"
             c == SubSeq(s, Len(s), Len(s))
             at == {i \in 1..Len(lower) : SubSeq(lower, i, i) = c}
             up == IF at = {} THEN c
                   ELSE LET i == CHOOSE i \in at : TRUE IN SubSeq(upper, i, i)
         IN  to_uppercase(SubSeq(s, 1, Len(s) - 1)) \o up

\* AmmoKind::from_str
AmmoKind_from_str(s) ==
    LET name == to_uppercase(s)
    IN  CASE name = "PRACTICE" -> [tag |-> "Some", v |-> "Practice"]
          [] name = "HE" -> [tag |-> "Some", v |-> "He"]
          [] name = "SMOKE" -> [tag |-> "Some", v |-> "Smoke"]
          [] name = "FLARE" -> [tag |-> "Some", v |-> "Flare"]
          [] OTHER -> [tag |-> "None", v |-> ""]

\* str::trim_end_matches('R'): every trailing 'R' goes.
RECURSIVE trim_end_matches(_)
trim_end_matches(s) ==
    IF Len(s) > 0 /\ SubSeq(s, Len(s), Len(s)) = "R"
    THEN trim_end_matches(SubSeq(s, 1, Len(s) - 1))
    ELSE s

\* The largest Ring (u8).
U8_MAX == 255

\* str::parse::<u8>: an optional '+', then at least one decimal digit, the
\* value within u8; anything else is an error.
parse(s) ==
    LET digits == "0123456789"
        body == IF Len(s) > 0 /\ SubSeq(s, 1, 1) = "+"
                THEN SubSeq(s, 2, Len(s)) ELSE s
        digit(i) == {v \in 0..9 : SubSeq(digits, v + 1, v + 1) = SubSeq(body, i, i)}
        value[i \in 0..Len(body)] ==
            IF i = 0 THEN 0
            ELSE IF value[i - 1] > U8_MAX THEN value[i - 1]
            ELSE 10 * value[i - 1] + (CHOOSE v \in digit(i) : TRUE)
    IN  IF Len(body) = 0 \/ \E i \in 1..Len(body) : digit(i) = {}
        THEN [tag |-> "Err", v |-> 0]
        ELSE IF value[Len(body)] > U8_MAX THEN [tag |-> "Err", v |-> 0]
        ELSE [tag |-> "Ok", v |-> value[Len(body)]]

\* Result::unwrap_or
unwrap_or(result, default) == IF result.tag = "Ok" THEN result.v ELSE default

\* let ring: Ring = ring_str.trim_end_matches('R').parse().unwrap_or(0);
ring_of(ring_str) == unwrap_or(parse(trim_end_matches(ring_str)), 0)

\* The loop `for (ring_str, &value) in rings` from its i-th entry on; rings
\* is the inner map as the list of its entries in key order.
RECURSIVE insert_rings(_, _, _, _)
insert_rings(tbl, ammo, ring_map, i) ==
    IF i > Len(ring_map) THEN tbl
    ELSE insert_rings(Insert(tbl, <<ammo, ring_of(ring_map[i].key)>>, ring_map[i].value),
                      ammo, ring_map, i + 1)

\* The loop `for (ammo_str, rings) in &metrics.dispersion` from its i-th
\* entry on; an unknown name is skipped (`None => continue`).
RECURSIVE insert_kinds(_, _, _)
insert_kinds(tbl, entries, i) ==
    IF i > Len(entries) THEN tbl
    ELSE LET ammo == AmmoKind_from_str(entries[i].name)
         IN  IF ammo.tag = "None" THEN insert_kinds(tbl, entries, i + 1)
             ELSE insert_kinds(insert_rings(tbl, ammo.v, entries[i].rings, 1),
                               entries, i + 1)

\* load_dispersion_from on a directory whose metrics.json is file: a file
\* that cannot be opened or deserialized is an error (the two `?`).
load_dispersion_from(file) ==
    IF ~file.ok THEN Err("metrics.json")
    ELSE Ok(insert_kinds(EmptyMap, file.dispersion, 1))

\* The keys of the four loops of load_ballistics_from, in the order of the
\* loops: PRACTICE and HE 0..=4, SMOKE and FLARE 1..=4.
ballistics_paths ==
    [r \in 1..5 |-> <<"Practice", r - 1>>] \o [r \in 1..5 |-> <<"He", r - 1>>]
    \o [r \in 1..4 |-> <<"Smoke", r>>] \o [r \in 1..4 |-> <<"Flare", r>>]

\* The four loops of load_ballistics_from, from the i-th path on; dir maps
\* the key of a CSV file to the file.  A file that is absent or fails to
\* load is passed over (`if let Ok(t)`); a panic of from_csv ends the load.
RECURSIVE insert_tables(_, _, _)
insert_tables(m, dir, i) ==
    IF i > Len(ballistics_paths) THEN Ok(m)
    ELSE LET key == ballistics_paths[i]
             t == IF dir[key].exists THEN from_csv(dir[key].rows)
                  ELSE [tag |-> "Err", points |-> <<>>]
         IN  CASE t.tag = "Panic" -> Aborted
               [] t.tag = "Ok" -> insert_tables(Insert(m, key, t.points), dir, i + 1)
               [] t.tag = "Err" -> insert_tables(m, dir, i + 1)

\* load_ballistics_from
load_ballistics_from(dir) == insert_tables(EmptyMap, dir, 1)

----------------------------------------------------------------------------
(* Starting from a data directory: both loaders, then a firing solution     *)

CsvFile(rs) == [exists |-> TRUE, rows |-> rs]
NoCsvFile == [exists |-> FALSE, rows |-> <<>>]

RowsNear == <<Row(Fin(600), Fin(1100)), Row(Fin(0), Fin(1200))>>
RowsBad == <<Row(Fin(0), Fin(1200)), BadRow>>

\* Directories: empty; every file of the twenty names present (ring 0 of
\* SMOKE and FLARE included); only the two ring-0 files of SMOKE and FLARE;
\* the published files with an unreadable HE 2R; HE alone.
DataDirs ==
    {[key \in Keys |-> NoCsvFile],
     [key \in Keys |-> CsvFile(RowsNear)],
     [key \in Keys |-> IF key \in LoaderKeys THEN NoCsvFile ELSE CsvFile(RowsNear)],
     [key \in Keys |-> IF key \notin LoaderKeys THEN NoCsvFile
                       ELSE IF key = <<"He", 2>> THEN CsvFile(RowsBad)
                       ELSE CsvFile(RowsNear)],
     [key \in Keys |-> IF key[1] = "He" THEN CsvFile(RowsNear) ELSE NoCsvFile]}

DispersionOf(name, ring_map) == [name |-> name, rings |-> ring_map]
Meters(key, value) == [key |-> key, value |-> Fin(value)]
MetricsFile(entries) == [ok |-> TRUE, dispersion |-> entries]
NoMetricsFile == [ok |-> FALSE, dispersion |-> <<>>]

\* The "dispersion" object of metrics.json, names and ring keys in the order
\* of the BTreeMap (byte order); every value of a file is distinct.
MetricsFiles ==
    {NoMetricsFile,
     MetricsFile(<<>>),
     MetricsFile(<<DispersionOf("HE", <<Meters("0R", 10), Meters("1R", 23),
                                        Meters("2R", 39), Meters("3R", 54),
                                        Meters("4R", 69)>>),
                   DispersionOf("PRACTICE", <<Meters("0R", 11), Meters("1R", 24),
                                              Meters("2R", 38), Meters("3R", 55),
                                              Meters("4R", 68)>>)>>),
     MetricsFile(<<DispersionOf("HE", <<Meters("0R", 10), Meters("XR", 99)>>)>>),
     MetricsFile(<<DispersionOf("SMOKE", <<Meters("0R", 12), Meters("1R", 20)>>)>>),
     MetricsFile(<<DispersionOf("FLARE", <<Meters("1R", 30), Meters("1r", 31)>>)>>),
     MetricsFile(<<DispersionOf("MORTIER", <<Meters("1R", 5)>>),
                   DispersionOf("he", <<Meters("2R", 40)>>)>>),
     MetricsFile(<<DispersionOf("HE", <<Meters("", 44), Meters("+2R", 41),
                                        Meters("300R", 42), Meters("4RR", 43),
                                        Meters("R", 45)>>)>>),
     MetricsFile(<<DispersionOf("HE", <<Meters("1R", 23)>>),
                   DispersionOf("he", <<Meters("1R", 24)>>)>>),
     MetricsFile(<<DispersionOf("SMOKE", <<Meters("1R", 20), Meters("2R", 35)>>),
                   DispersionOf("Smoke", <<Meters("3R", 50)>>)>>)}

LoaderMortars ==
    {MortarPosition("M1", Fin(100), Fin(0), Fin(0), ammo) :
        ammo \in {"He", "Smoke", "Flare"}}

LoaderTargets == {TargetPosition("T1", Fin(50), Fin(300), Fin(400), "Infanterie")}

LoaderInit ==
    /\ data_dir \in DataDirs
    /\ metrics_json \in MetricsFiles
    /\ loaded = {}
    /\ mortar \in LoaderMortars
    /\ target \in LoaderTargets
    /\ ballistics = EmptyMap
    /\ dispersion_table = EmptyMap
    /\ solution = NoCall
    /\ TableIdle /\ DispersionIdle /\ CorrectionIdle /\ GeometryIdle
    /\ PchipIdle /\ ToolIdle /\ ServerIdle

LoaderOthers ==
    <<table_vars, dispersion, correction_vars, geometry_vars, pchip_vars, tool_vars,
      server_vars>>

\* let ballistics = load_ballistics_from(data_path).unwrap_or_else(..)
LoadBallistics ==
    /\ loaded = {}
    /\ LET result == load_ballistics_from(data_dir)
       IN  /\ loaded' = {<<"ballistics", result.tag>>}
           /\ ballistics' = IF result.tag = "Ok" THEN result.v ELSE EmptyMap
    /\ UNCHANGED <<mortar, target, dispersion_table, solution, data_dir, metrics_json>>
    /\ UNCHANGED LoaderOthers

\* let dispersions = load_dispersion_from(data_path).unwrap_or_else(..)
LoadDispersion ==
    /\ loaded = {<<"ballistics", "Ok">>}
    /\ LET result == load_dispersion_from(metrics_json)
       IN  /\ loaded' = loaded \cup {<<"dispersion", result.tag>>}
           /\ dispersion_table' = IF result.tag = "Ok" THEN result.v ELSE EmptyMap
    /\ UNCHANGED <<mortar, target, ballistics, solution, data_dir, metrics_json>>
    /\ UNCHANGED LoaderOthers

DispersionLoaded == \E tag \in {"Ok", "Err"} : <<"dispersion", tag>> \in loaded

\* The handler's call of calculate_solution_with_dispersion on the tables of
\* the state built at start.
CalculateLoaded ==
    /\ DispersionLoaded
    /\ solution.tag = "NoCall"
    /\ solution' = calculate_solution_with_dispersion(mortar, target, ballistics,
                                                      dispersion_table)
    /\ UNCHANGED <<mortar, target, ballistics, dispersion_table, loader_vars>>
    /\ UNCHANGED LoaderOthers

LoaderNext == LoadBallistics \/ LoadDispersion \/ CalculateLoaded

SpecLoader == LoaderInit /\ [][LoaderNext]_vars

\* The entries of metrics.json under a known name, as (kind, ring key, value).
KnownMeters ==
    UNION {{[kind |-> AmmoKind_from_str(metrics_json.dispersion[i].name).v,
             key |-> metrics_json.dispersion[i].rings[j].key,
             value |-> metrics_json.dispersion[i].rings[j].value] :
                j \in 1..Len(metrics_json.dispersion[i].rings)} :
           i \in {i \in 1..Len(metrics_json.dispersion) :
                     AmmoKind_from_str(metrics_json.dispersion[i].name).tag = "Some"}}

\* Whether a ring key is a ring index followed by the suffix.
Parses(key) == parse(trim_end_matches(key)).tag = "Ok"

\* C20: once metrics.json is loaded, the load has not failed on an unknown
\* name and the table holds exactly the keys (kind, ring) of the entries
\* under the four known names (any case), the ring being the integer left
\* after stripping "R" and 0 when there is none; and the cell of a ring key
\* that parses never holds the value of an unparsable ring key of the same
\* projectile.
C20_RingKeysKeepTheirCell ==
    (DispersionLoaded /\ metrics_json.ok) =>
        /\ <<"dispersion", "Ok">> \in loaded
        /\ DOMAIN dispersion_table =
              {<<e.kind, IF Parses(e.key) THEN parse(trim_end_matches(e.key)).v ELSE 0>> :
                  e \in KnownMeters}
        /\ \A e \in KnownMeters : \A f \in KnownMeters :
              (Parses(e.key) /\ ~Parses(f.key) /\ e.kind = f.kind) =>
                  dispersion_table[<<e.kind, parse(trim_end_matches(e.key)).v>>] # f.value

\* C19: no ring-0 entry of Smoke or Flare is in the tables built by the two
\* loaders, and in a firing solution computed from them the ring-0 cell of
\* SMOKE and of FLARE is None in the elevation matrix and in the dispersion
\* matrix.
C19_NoRingZeroForSmokeAndFlare ==
    /\ \A kind \in {"Smoke", "Flare"} :
          /\ <<kind, 0>> \notin DOMAIN ballistics
          /\ <<kind, 0>> \notin DOMAIN dispersion_table
    /\ solution.tag = "Returned" =>
          \A label \in {"SMOKE", "FLARE"} :
              /\ solution.solutions[label]["0R"].tag = "None"
              /\ solution.dispersions[label]["0R"].tag = "None"

----------------------------------------------------------------------------
(* The server: two lists of positions, each behind its own lock             *)

\* TargetType::from_str
TargetType_from_str(s) ==
    LET name == to_uppercase(s)
    IN  CASE name \in {"INFANTERIE", "INF"} -> [tag |-> "Some", v |-> "Infanterie"]
          [] name \in {"VEHICULE", "VEH"} -> [tag |-> "Some", v |-> "Vehicule"]
          [] name \in {"SOUTIEN", "SOU"} -> [tag |-> "Some", v |-> "Soutien"]
          [] OTHER -> [tag |-> "None", v |-> ""]

\* Option::unwrap_or
option_unwrap_or(option, default) ==
    IF option.tag = "Some" THEN option.v ELSE default

\* str::parse::<f64> on the words of a command: an optional sign, then nan,
\* inf or infinity in any case, or whole digits (the commands below carry no
\* fraction and no exponent); every other word is an error.
parse_f64(s) ==
    LET digits == "0123456789"
        signed == Len(s) > 0 /\ SubSeq(s, 1, 1) \in {"+", "-"}
        negative == signed /\ SubSeq(s, 1, 1) = "-"
        body == IF signed THEN SubSeq(s, 2, Len(s)) ELSE s
        word == to_uppercase(body)
        digit(i) == {v \in 0..9 : SubSeq(digits, v + 1, v + 1) = SubSeq(body, i, i)}
        value[i \in 0..Len(body)] ==
            IF i = 0 THEN 0
            ELSE 10 * value[i - 1] + (CHOOSE v \in digit(i) : TRUE)
    IN  IF word = "NAN" THEN Ok(NaN)
        ELSE IF word \in {"INF", "INFINITY"} THEN Ok(IF negative THEN NInf ELSE PInf)
        ELSE IF Len(body) > 0 /\ \A i \in 1..Len(body) : digit(i) # {}
        THEN Ok(Fin(IF negative THEN 0 - value[Len(body)] ELSE value[Len(body)]))
        ELSE Err("invalid float literal")

\* Json(ErrorResponse) with its status, Json(SuccessResponse) with OK; the
\* command loop prints the same outcome where a handler returns it.
Reply(status, text) == [status |-> status, text |-> text]

\* iter().find(|p| p.name == name): the index of the first position of that
\* name, 0 when there is none.
find(list, name) ==
    LET at == {i \in 1..Len(list) : list[i].name = name}
    IN  IF at = {} THEN 0 ELSE CHOOSE i \in at : \A j \in at : i <= j

\* retain(|p| p.name != name)
retain(list, name) == SelectSeq(list, LAMBDA p : p.name # name)

\* A variant of add_mortar that pushes without looking for the name.
add_mortar_unchecked(mortars, req) ==
    LET ammo_type == option_unwrap_or(AmmoKind_from_str(req.ammo_type), "He")
    IN  [list |-> Append(mortars, MortarPosition(req.name, req.elevation,
                                                 req.x, req.y, ammo_type)),
         resp |-> Reply("OK", "Mortar '" \o req.name \o "' added with "
                              \o AmmoKind_as_str(ammo_type))]

\* The body of add_mortar once the write lock is held.
add_mortar(mortars, req) ==
    LET ammo_type == option_unwrap_or(AmmoKind_from_str(req.ammo_type), "He")
    IN  IF \E i \in 1..Len(mortars) : mortars[i].name = req.name
        THEN [list |-> mortars,
              resp |-> Reply("CONFLICT", "Mortar '" \o req.name \o "' already exists")]
        ELSE [list |-> Append(mortars, MortarPosition(req.name, req.elevation,
                                                      req.x, req.y, ammo_type)),
              resp |-> Reply("OK", "Mortar '" \o req.name \o "' added with "
                                   \o AmmoKind_as_str(ammo_type))]

\* delete_mortar
delete_mortar(mortars, req) ==
    LET kept == retain(mortars, req.name)
    IN  IF Len(kept) < Len(mortars)
        THEN [list |-> kept,
              resp |-> Reply("OK", "Mortar '" \o req.name \o "' deleted")]
        ELSE [list |-> kept,
              resp |-> Reply("NOT_FOUND", "Mortar '" \o req.name \o "' not found")]

\* The body of update_mortar_ammo once the ammunition has been parsed.
update_mortar_ammo(mortars, req) ==
    LET ammo_type == AmmoKind_from_str(req.ammo_type).v
        i == find(mortars, req.name)
    IN  IF i > 0
        THEN [list |-> [mortars EXCEPT ![i].ammo_type = ammo_type],
              resp |-> Reply("OK", "Mortar '" \o req.name \o "' ammo set to "
                                   \o AmmoKind_as_str(ammo_type))]
        ELSE [list |-> mortars,
              resp |-> Reply("NOT_FOUND", "Mortar '" \o req.name \o "' not found")]

\* The body of add_target once the write lock is held.
add_target(targets, req) ==
    LET target_type == option_unwrap_or(TargetType_from_str(req.target_type),
                                        "Infanterie")
    IN  IF \E i \in 1..Len(targets) : targets[i].name = req.name
        THEN [list |-> targets,
              resp |-> Reply("CONFLICT", "Target '" \o req.name \o "' already exists")]
        ELSE [list |-> Append(targets, TargetPosition(req.name, req.elevation,
                                                      req.x, req.y, target_type)),
              resp |-> Reply("OK", "Target '" \o req.name \o "' added as "
                                   \o TargetType_as_str(target_type))]

\* delete_target
delete_target(targets, req) ==
    LET kept == retain(targets, req.name)
    IN  IF Len(kept) < Len(targets)
        THEN [list |-> kept,
              resp |-> Reply("OK", "Target '" \o req.name \o "' deleted")]
        ELSE [list |-> kept,
              resp |-> Reply("NOT_FOUND", "Target '" \o req.name \o "' not found")]

\* The body of update_target_type once the type has been parsed.
update_target_type(targets, req) ==
    LET target_type == TargetType_from_str(req.target_type).v
        i == find(targets, req.name)
    IN  IF i > 0
        THEN [list |-> [targets EXCEPT ![i].target_type = target_type],
              resp |-> Reply("OK", "Target '" \o req.name \o "' type set to "
                                   \o TargetType_as_str(target_type))]
        ELSE [list |-> targets,
              resp |-> Reply("NOT_FOUND", "Target '" \o req.name \o "' not found")]

\* A variant of correct_target that overwrites the whole stored target.
correct_target_replacing(targets, req) ==
    LET i == find(targets, req.target_name)
        moved == apply_correction(targets[i], req.vertical_m, req.horizontal_m)
        existing == find(targets, moved.name)
    IN  IF i = 0
        THEN [list |-> targets,
              resp |-> Reply("NOT_FOUND", "Target '" \o req.target_name \o "' not found")]
        ELSE [list |-> IF existing > 0
                       THEN [targets EXCEPT ![existing] = moved]
                       ELSE Append(targets, moved),
              resp |-> [status |-> "OK", original |-> req.target_name,
                        corrected |-> moved.name,
                        vertical_m |-> req.vertical_m,
                        horizontal_m |-> req.horizontal_m,
                        new_x |-> moved.x, new_y |-> moved.y]]

\* correct_target, correct_target_cli
correct_target(targets, req) ==
    LET i == find(targets, req.target_name)
        moved == apply_correction(targets[i], req.vertical_m, req.horizontal_m)
        existing == find(targets, moved.name)
    IN  IF i = 0
        THEN [list |-> targets,
              resp |-> Reply("NOT_FOUND", "Target '" \o req.target_name \o "' not found")]
        ELSE [list |-> IF existing > 0
                       THEN [targets EXCEPT ![existing].x = moved.x,
                                            ![existing].y = moved.y]
                       ELSE Append(targets, moved),
              resp |-> [status |-> "OK", original |-> req.target_name,
                        corrected |-> moved.name,
                        vertical_m |-> req.vertical_m,
                        horizontal_m |-> req.horizontal_m,
                        new_x |-> moved.x, new_y |-> moved.y]]

\* calculate_by_name, calc_and_print: the match on the two lookups.
calculate_by_name(mortars, targets, req, tables, bases) ==
    LET m == find(mortars, req.mortar_name)
        t == find(targets, req.target_name)
    IN  IF m > 0 /\ t > 0
        THEN LET found == calculate_solution_with_dispersion(mortars[m], targets[t],
                                                             tables, bases)
             IN  IF found.tag = "Panicked" THEN Aborted
                 ELSE [status |-> "OK", solution |-> found]
        ELSE IF m = 0
        THEN Reply("NOT_FOUND", "Mortar '" \o req.mortar_name \o "' not found")
        ELSE Reply("NOT_FOUND", "Target '" \o req.target_name \o "' not found")

\* list_all
list_all(mortars, targets) ==
    [status |-> "OK", mortars |-> mortars, targets |-> targets]

\* handle_cli_command up to the first lock: the words of the line become the
\* request the command carries out, numbers parsed with unwrap_or(0.0).
handle_cli_command(parts) ==
    LET number(i) == unwrap_or(parse_f64(parts[i]), Fin(0))
        word == parts[1]
    IN  CASE word \in {"list", "ls"} -> [op |-> "list_all", via |-> "cli"]
          [] word \in {"add_mortar", "am"} ->
                IF Len(parts) < 5 THEN [op |-> "usage", via |-> "cli"]
                ELSE [op |-> "add_mortar", via |-> "cli", name |-> parts[2],
                      elevation |-> number(3), x |-> number(4), y |-> number(5),
                      ammo_type |-> IF Len(parts) > 5 THEN parts[6] ELSE "HE"]
          [] word \in {"add_target", "at"} ->
                IF Len(parts) < 5 THEN [op |-> "usage", via |-> "cli"]
                ELSE [op |-> "add_target", via |-> "cli", name |-> parts[2],
                      elevation |-> number(3), x |-> number(4), y |-> number(5),
                      target_type |-> IF Len(parts) > 5 THEN parts[6] ELSE "INFANTERIE"]
          [] word \in {"rm_mortar", "rmm"} ->
                IF Len(parts) < 2 THEN [op |-> "usage", via |-> "cli"]
                ELSE [op |-> "delete_mortar", via |-> "cli", name |-> parts[2]]
          [] word \in {"rm_target", "rmt"} ->
                IF Len(parts) < 2 THEN [op |-> "usage", via |-> "cli"]
                ELSE [op |-> "delete_target", via |-> "cli", name |-> parts[2]]
          [] word \in {"set_ammo", "sa"} ->
                IF Len(parts) < 3 THEN [op |-> "usage", via |-> "cli"]
                ELSE [op |-> "update_mortar_ammo", via |-> "cli", name |-> parts[2],
                      ammo_type |-> parts[3]]
          [] word \in {"set_type", "st"} ->
                IF Len(parts) < 3 THEN [op |-> "usage", via |-> "cli"]
                ELSE [op |-> "update_target_type", via |-> "cli", name |-> parts[2],
                      target_type |-> parts[3]]
          [] word \in {"calc", "c"} ->
                IF Len(parts) < 3 THEN [op |-> "usage", via |-> "cli"]
                ELSE [op |-> "calculate_by_name", via |-> "cli",
                      mortar_name |-> parts[2], target_name |-> parts[3]]
          [] word \in {"correct", "cor"} ->
                IF Len(parts) < 4 THEN [op |-> "usage", via |-> "cli"]
                ELSE [op |-> "correct_target", via |-> "cli", target_name |-> parts[2],
                      vertical_m |-> number(3), horizontal_m |-> number(4)]
          [] OTHER -> [op |-> "unknown", via |-> "cli"]

\* What a handler returns before it asks for a lock; NoCall when it goes on.
early_return(req) ==
    CASE req.op \in {"usage", "unknown"} -> Reply("USAGE", "")
      [] req.op \in {"add_mortar", "add_target"} /\ req.via = "http" /\ req.name = "" ->
            Reply("BAD_REQUEST", "Name cannot be empty")
      [] req.op = "update_mortar_ammo" /\ AmmoKind_from_str(req.ammo_type).tag = "None" ->
            Reply("BAD_REQUEST", "Invalid ammo type: " \o req.ammo_type)
      [] req.op = "update_target_type" /\ TargetType_from_str(req.target_type).tag = "None" ->
            Reply("BAD_REQUEST", "Invalid target type: " \o req.target_type)
      [] OTHER -> NoCall

\* The locks a handler takes, in the order of its awaits.
locks_of(req) ==
    CASE req.op \in {"calculate_by_name", "list_all"} ->
            <<(<<"mortars", "read">>), (<<"targets", "read">>)>>
      [] req.op \in {"add_mortar", "delete_mortar", "update_mortar_ammo"} ->
            <<(<<"mortars", "write">>)>>
      [] req.op \in {"add_target", "delete_target", "update_target_type",
                     "correct_target"} ->
            <<(<<"targets", "write">>)>>

\* The body of a handler under its locks: the two lists it leaves and what
\* it returns.
serve(req, mortars, targets, tables, bases) ==
    LET on_mortars(done) == [mortars |-> done.list, targets |-> targets,
                             resp |-> done.resp]
        on_targets(done) == [mortars |-> mortars, targets |-> done.list,
                             resp |-> done.resp]
        reading(resp) == [mortars |-> mortars, targets |-> targets, resp |-> resp]
    IN  CASE req.op = "add_mortar" -> on_mortars(add_mortar(mortars, req))
          [] req.op = "delete_mortar" -> on_mortars(delete_mortar(mortars, req))
          [] req.op = "update_mortar_ammo" -> on_mortars(update_mortar_ammo(mortars, req))
          [] req.op = "add_target" -> on_targets(add_target(targets, req))
          [] req.op = "delete_target" -> on_targets(delete_target(targets, req))
          [] req.op = "update_target_type" -> on_targets(update_target_type(targets, req))
          [] req.op = "correct_target" -> on_targets(correct_target(targets, req))
          [] req.op = "calculate_by_name" ->
                reading(calculate_by_name(mortars, targets, req, tables, bases))
          [] req.op = "list_all" -> reading(list_all(mortars, targets))

\* tokio::sync::RwLock: the guards handed out and the queue of tasks waiting,
\* oldest first.  A lock is granted at once when nobody waits and the guards
\* out allow it; otherwise the task joins the queue, a reader behind a
\* queued writer too.
Unlocked == [holders |-> {}, queue |-> <<>>]

Compatible(holders, mode) ==
    IF mode = "write" THEN holders = {} ELSE \A h \in holders : h[2] = "read"

acquire(lock, task, mode) ==
    IF lock.queue = <<>> /\ Compatible(lock.holders, mode)
    THEN [lock EXCEPT !.holders = @ \cup {<<task, mode>>}]
    ELSE [lock EXCEPT !.queue = Append(@, <<task, mode>>)]

\* Dropping a guard hands the lock to the tasks at the head of the queue.
RECURSIVE wake(_)
wake(lock) ==
    IF lock.queue # <<>> /\ Compatible(lock.holders, Head(lock.queue)[2])
    THEN wake([holders |-> lock.holders \cup {Head(lock.queue)},
               queue |-> Tail(lock.queue)])
    ELSE lock

release(lock, task) ==
    wake([lock EXCEPT !.holders = {h \in @ : h[1] # task}])

----------------------------------------------------------------------------
(* Serving requests and commands                                            *)

\* Two connections of the web server and the command loop of main.
WebTasks == {"web1", "web2"}
Tasks == WebTasks \cup {"cli"}

MaxRequests == 3

\* The tables main loads before it serves.
ServerTables == [key \in LoaderKeys |-> IF key[2] = 2 THEN TableFar ELSE TableNear]
ServerBases == [key \in LoaderKeys |-> Fin(10 + 15 * key[2])]

\* The bodies of the requests sent to the routes.
HttpRequests ==
    {[op |-> "add_mortar", via |-> "http", name |-> name, elevation |-> Fin(100),
      x |-> Fin(0), y |-> Fin(0), ammo_type |-> "smoke"] : name \in {"M1", ""}}
    \cup {[op |-> "delete_mortar", via |-> "http", name |-> "M1"]}
    \cup {[op |-> "update_mortar_ammo", via |-> "http", name |-> "M1",
           ammo_type |-> kind] : kind \in {"smoke", "XX"}}
    \cup {[op |-> "add_target", via |-> "http", name |-> "T1", elevation |-> Fin(50),
           x |-> Fin(300), y |-> Fin(400), target_type |-> "INF"],
          [op |-> "add_target", via |-> "http", name |-> "T1_C", elevation |-> Fin(80),
           x |-> Fin(0), y |-> Fin(0), target_type |-> "sou"]}
    \cup {[op |-> "delete_target", via |-> "http", name |-> "T1"]}
    \cup {[op |-> "update_target_type", via |-> "http", name |-> "T1",
           target_type |-> "VEH"]}
    \cup {[op |-> "correct_target", via |-> "http", target_name |-> name,
           vertical_m |-> dev[1], horizontal_m |-> dev[2]] :
              name \in {"T1", "T1_C"},
              dev \in {<<Fin(400), Fin(0)>>, <<Fin(0), Fin(300)>>}}
    \cup {[op |-> "calculate_by_name", via |-> "http", mortar_name |-> "M1",
           target_name |-> name] : name \in {"T1", "T1_C"}}

\* The lines typed at the prompt, split at white space.
CliLines ==
    {<<"am", "M1", "100", "NaN", "0">>,
     <<"am", "M1">>,
     <<"at", "T1", "50", "300", "x400", "veh">>,
     <<"rmt", "T1_C">>,
     <<"sa", "M1", "practice">>,
     <<"st", "T1", "sou">>,
     <<"c", "M1", "T1">>,
     <<"cor", "T1", "-400", "+300">>,
     <<"ls">>,
     <<"status">>}

Idle(task) == srv_req[task] = NoCall

Holds(task, name) == \E h \in srv_lock[name].holders : h[1] = task

Waits(task) ==
    \E name \in DOMAIN srv_lock :
        \E i \in 1..Len(srv_lock[name].queue) : srv_lock[name].queue[i][1] = task

\* How many of its locks a task holds.
Held(task) == Cardinality({name \in DOMAIN srv_lock : Holds(task, name)})

\* AppState as main builds it: both lists empty, both locks free.
ServerInit ==
    /\ srv_mortars = <<>>
    /\ srv_targets = <<>>
    /\ srv_lock = [name \in {"mortars", "targets"} |-> Unlocked]
    /\ srv_req = [task \in Tasks |-> NoCall]
    /\ srv_out = NoCall
    /\ srv_served = 0
    /\ srv_up = TRUE
    /\ ballistics = ServerTables
    /\ dispersion_table = ServerBases
    /\ mortar = NoMortar
    /\ target = NoTarget
    /\ solution = NoCall
    /\ TableIdle /\ DispersionIdle /\ CorrectionIdle /\ GeometryIdle
    /\ PchipIdle /\ ToolIdle /\ LoaderIdle

ServerOthers ==
    <<solution_vars, target, table_vars, dispersion, correction_vars,
      geometry_vars, pchip_vars, tool_vars, loader_vars>>

\* A handler from its start to its first lock: it returns early, or asks for
\* the lock and holds it or waits for it.
Start(task, req) ==
    /\ srv_up
    /\ Idle(task)
    /\ srv_served < MaxRequests
    /\ srv_served' = srv_served + 1
    /\ IF early_return(req) # NoCall
       THEN /\ srv_out' = [task |-> task, req |-> req, resp |-> early_return(req)]
            /\ UNCHANGED <<srv_req, srv_lock>>
       ELSE LET first == locks_of(req)[1]
            IN  /\ srv_req' = [srv_req EXCEPT ![task] = req]
                /\ srv_lock' = [srv_lock EXCEPT
                                   ![first[1]] = acquire(@, task, first[2])]
                /\ UNCHANGED srv_out
    /\ UNCHANGED <<srv_mortars, srv_targets, srv_up>>
    /\ UNCHANGED ServerOthers

\* A request reaches its route.
Request == \E task \in WebTasks : \E req \in HttpRequests : Start(task, req)

\* A line reaches handle_cli_command.
Command == \E parts \in CliLines : Start("cli", handle_cli_command(parts))

\* The second await of a handler that reads both lists.
Await(task) ==
    /\ srv_up
    /\ ~Idle(task)
    /\ ~Waits(task)
    /\ Held(task) < Len(locks_of(srv_req[task]))
    /\ LET next == locks_of(srv_req[task])[Held(task) + 1]
       IN  srv_lock' = [srv_lock EXCEPT ![next[1]] = acquire(@, task, next[2])]
    /\ UNCHANGED <<srv_mortars, srv_targets, srv_req, srv_out, srv_served, srv_up>>
    /\ UNCHANGED ServerOthers

Ready(task) ==
    /\ srv_up
    /\ ~Idle(task)
    /\ ~Waits(task)
    /\ Held(task) = Len(locks_of(srv_req[task]))

\* The rest of a handler once it holds its locks, its guards dropped at the
\* end; done is what its body leaves.
Respond(task, done) ==
    /\ done.resp # Aborted
    /\ srv_mortars' = done.mortars
    /\ srv_targets' = done.targets
    /\ srv_out' = [task |-> task, req |-> srv_req[task], resp |-> done.resp]
    /\ srv_req' = [srv_req EXCEPT ![task] = NoCall]
    /\ srv_lock' = [name \in DOMAIN srv_lock |-> release(srv_lock[name], task)]
    /\ UNCHANGED <<srv_served, srv_up>>
    /\ UNCHANGED ServerOthers

\* A handler panics in a task of the web server and the panic unwinds: the
\* task is gone, its guards dropped, no response sent.
Unwind(task, done) ==
    /\ task \in WebTasks
    /\ done.resp = Aborted
    /\ srv_out' = [task |-> task, req |-> srv_req[task], resp |-> Aborted]
    /\ srv_req' = [srv_req EXCEPT ![task] = NoCall]
    /\ srv_lock' = [name \in DOMAIN srv_lock |-> release(srv_lock[name], task)]
    /\ UNCHANGED <<srv_mortars, srv_targets, srv_served, srv_up>>
    /\ UNCHANGED ServerOthers

\* A panic ends the process: always when it is raised under main, in the
\* command loop, and in a task of the web server when the build aborts on
\* panic.
Abort(task, done) ==
    /\ done.resp = Aborted
    /\ srv_out' = [task |-> task, req |-> srv_req[task], resp |-> Aborted]
    /\ srv_up' = FALSE
    /\ UNCHANGED <<srv_mortars, srv_targets, srv_req, srv_lock, srv_served>>
    /\ UNCHANGED ServerOthers

\* A handler runs from its last lock to its end.
Finish(task) ==
    /\ Ready(task)
    /\ LET done == serve(srv_req[task], srv_mortars, srv_targets,
                         ballistics, dispersion_table)
       IN  \/ Respond(task, done)
           \/ Unwind(task, done)
           \/ Abort(task, done)

ServerNext ==
    \/ Request
    \/ Command
    \/ \E task \in Tasks : Await(task)
    \/ \E task \in Tasks : Finish(task)

SpecServer == ServerInit /\ [][ServerNext]_vars

----------------------------------------------------------------------------
(* Calculating by name                                                      *)

\* The step in which the handler of a task ends: it returns, or its panic
\* ends the task or the process.
Ends(task) ==
    /\ Ready(task)
    /\ srv_req'[task] = NoCall \/ ~srv_up'
    /\ srv_out'.task = task

Succeeded(resp) == resp # Aborted /\ resp.status = "OK"

\* Every stored position has finite coordinates.
AllFinite ==
    /\ \A i \in 1..Len(srv_mortars) :
           is_finite(srv_mortars[i].x) /\ is_finite(srv_mortars[i].y)
    /\ \A i \in 1..Len(srv_targets) :
           is_finite(srv_targets[i].x) /\ is_finite(srv_targets[i].y)

CalculatedByName(task) ==
    LET req == srv_req[task]
        m == find(srv_mortars, req.mortar_name)
        t == find(srv_targets, req.target_name)
        resp == srv_out'.resp
    IN  /\ Succeeded(resp) <=> (m > 0 /\ t > 0)
        /\ Succeeded(resp) =>
              /\ resp.solution.mortar_ammo = AmmoKind_as_str(srv_mortars[m].ammo_type)
              /\ resp.solution.target_type = TargetType_as_str(srv_targets[t].target_type)
              /\ resp.solution.recommended_ammo =
                     AmmoKind_as_str(suggested_ammo(srv_targets[t].target_type))
              /\ resp.solution.selected_solution.tag = "Some"
        /\ m = 0 =>
              resp = Reply("NOT_FOUND", "Mortar '" \o req.mortar_name \o "' not found")
        /\ (m > 0 /\ t = 0) =>
              resp = Reply("NOT_FOUND", "Target '" \o req.target_name \o "' not found")
        /\ srv_mortars' = srv_mortars
        /\ srv_targets' = srv_targets

\* C21: a calculation by name for (M, T) succeeds exactly when a mortar named
\* M and a target named T are stored when it runs; the solution then carries
\* the ammunition stored for M, the type stored for T, the projectile
\* recommended for that type and a selected solution; otherwise it answers
\* not found, naming the mortar when the mortar is missing; and it changes
\* neither list.
C21_CalculateByName ==
    [][\A task \in Tasks :
          (Ends(task) /\ srv_req[task].op = "calculate_by_name")
              => CalculatedByName(task)]_vars

\* The same with finite coordinates in every stored position.
CalculateByNameOnFinite ==
    [][\A task \in Tasks :
          (Ends(task) /\ srv_req[task].op = "calculate_by_name" /\ AllFinite)
              => CalculatedByName(task)]_vars

----------------------------------------------------------------------------
(* Correcting a stored target                                               *)

\* What a correction of the stored target at index i by (vertical_m,
\* horizontal_m) must leave in the list.
CorrectedInPlace(i, vertical_m, horizontal_m) ==
    LET t == srv_targets[i]
        name == corrected_name(t.name)
        x == FSub(t.x, horizontal_m)
        y == FSub(t.y, vertical_m)
        e == find(srv_targets, name)
    IN  /\ e > 0 =>
              /\ Len(srv_targets') = Len(srv_targets)
              /\ \A j \in 1..Len(srv_targets) : j # e => srv_targets'[j] = srv_targets[j]
              /\ srv_targets'[e].name = srv_targets[e].name
              /\ srv_targets'[e].elevation = srv_targets[e].elevation
              /\ srv_targets'[e].target_type = srv_targets[e].target_type
              /\ srv_targets'[e].x = x
              /\ srv_targets'[e].y = y
        /\ e = 0 =>
              srv_targets' = Append(srv_targets,
                                    TargetPosition(name, t.elevation, x, y, t.target_type))
        /\ ends_with(t.name, "_C") =>
              /\ Len(srv_targets') = Len(srv_targets)
              /\ srv_targets'[i].name = t.name
              /\ srv_targets'[i].x = x
              /\ srv_targets'[i].y = y
        /\ ~ends_with(t.name, "_C") =>
              /\ srv_targets'[i] = t
              /\ LET c == find(srv_targets', t.name \o "_C")
                 IN  /\ c > 0
                     /\ srv_targets'[c].x = x
                     /\ srv_targets'[c].y = y

\* C27: a correction of a stored target T takes T's position minus the
\* deviation and writes it into the x and y of the stored target that bears
\* the corrected name, whose altitude, classification and name stay, or
\* appends the corrected point when no target bears that name; a target
\* whose name ends in "_C" is thus moved itself, the number of targets
\* staying, and a target N without the suffix is left as it is while N_C
\* becomes N's position minus the deviation of this correction alone.
C27_CorrectionOverwrites ==
    [][\A task \in Tasks :
          (/\ Ends(task)
           /\ srv_req[task].op = "correct_target"
           /\ find(srv_targets, srv_req[task].target_name) > 0)
              => CorrectedInPlace(find(srv_targets, srv_req[task].target_name),
                                  srv_req[task].vertical_m,
                                  srv_req[task].horizontal_m)]_vars

\* T1_C, stored on its own at another altitude and as another type, has been
\* overwritten by a correction of T1: it keeps its altitude and type and
\* sits at T1's position minus the deviation.
C27_Witness ==
    /\ srv_out # NoCall
    /\ srv_out.req.op = "correct_target"
    /\ srv_out.req.target_name = "T1"
    /\ Succeeded(srv_out.resp)
    /\ Len(srv_targets) = 2
    /\ LET n == find(srv_targets, "T1")
           c == find(srv_targets, "T1_C")
       IN  /\ n > 0 /\ c > 0
           /\ srv_targets[c].elevation # srv_targets[n].elevation
           /\ srv_targets[c].target_type # srv_targets[n].target_type
           /\ srv_targets[c].x = FSub(srv_targets[n].x, srv_out.req.horizontal_m)
           /\ srv_targets[c].y = FSub(srv_targets[n].y, srv_out.req.vertical_m)

----------------------------------------------------------------------------
(* Names under concurrent requests                                          *)

Names(list) == {list[i].name : i \in 1..Len(list)}

UniqueNames(list) ==
    \A i, j \in 1..Len(list) : list[i].name = list[j].name => i = j

\* list with one more position, named name, at its end.
Extends(after, list, name) ==
    /\ Len(after) = Len(list) + 1
    /\ SubSeq(after, 1, Len(list)) = list
    /\ after[Len(after)].name = name

\* What the end of an add or of a correction does to the names stored.
StoresOnce(task) ==
    LET req == srv_req[task]
        resp == srv_out'.resp
    IN  /\ req.op = "add_mortar" =>
              IF req.name \in Names(srv_mortars)
              THEN /\ resp = Reply("CONFLICT", "Mortar '" \o req.name \o "' already exists")
                   /\ srv_mortars' = srv_mortars
              ELSE /\ Succeeded(resp)
                   /\ Extends(srv_mortars', srv_mortars, req.name)
        /\ req.op = "add_target" =>
              IF req.name \in Names(srv_targets)
              THEN /\ resp = Reply("CONFLICT", "Target '" \o req.name \o "' already exists")
                   /\ srv_targets' = srv_targets
              ELSE /\ Succeeded(resp)
                   /\ Extends(srv_targets', srv_targets, req.name)
        /\ req.op = "correct_target" =>
              \/ Len(srv_targets') = Len(srv_targets)
              \/ /\ corrected_name(req.target_name) \notin Names(srv_targets)
                 /\ Extends(srv_targets', srv_targets, corrected_name(req.target_name))

\* C28: under every interleaving of requests and commands no two stored
\* mortars and no two stored targets bear one name: an add that finds its
\* name stored is rejected as already existing and leaves the list as it
\* is, an add that does not find it appends it, so that of two adds of one
\* name that run one after the other under the write lock the second is
\* rejected; and a correction appends a target only under a name that is not
\* stored.
C28_NamesStayUnique ==
    /\ [](UniqueNames(srv_mortars) /\ UniqueNames(srv_targets))
    /\ [][\A task \in Tasks : Ends(task) => StoresOnce(task)]_vars

\* Two tasks asked to add the same target; the first stored it, the second,
\* which waited for the write lock meanwhile, has just been rejected.
C28_Witness ==
    /\ srv_out # NoCall
    /\ srv_out.req.op = "add_target"
    /\ srv_out.resp # Aborted
    /\ srv_out.resp.status = "CONFLICT"
    /\ srv_served = 2
    /\ Len(srv_targets) = 1
    /\ srv_targets[1].name = srv_out.req.name

----------------------------------------------------------------------------
(* Waiting for the locks                                                    *)

\* The requests and commands that contend for the two locks: writers of
\* either list and readers of both, among them the command that stores a
\* NaN coordinate.
ContendingRequests ==
    {req \in HttpRequests :
        req.op \in {"delete_mortar", "add_target", "calculate_by_name"}}

ContendingLines ==
    {<<"am", "M1", "100", "NaN", "0">>, <<"c", "M1", "T1">>, <<"ls">>}

ContendingRequest ==
    \E task \in WebTasks : \E req \in ContendingRequests : Start(task, req)

ContendingCommand ==
    \E parts \in ContendingLines : Start("cli", handle_cli_command(parts))

ContendingNext ==
    \/ ContendingRequest
    \/ ContendingCommand
    \/ \E task \in Tasks : Await(task)
    \/ \E task \in Tasks : Finish(task)

\* WF_vars(Finish(task)) with its ENABLED written out: a handler that holds
\* its locks can always run to its end, and doing so changes the state.
FinishFair(task) == []<>(~Ready(task)) \/ []<><<Finish(task)>>_vars

\* The runtime runs every task that can run: a handler that can ask for its
\* second lock does, a handler that holds its locks reaches its end.
SpecServerFair ==
    /\ ServerInit
    /\ [][ContendingNext]_vars
    /\ (\A task \in Tasks : WF_vars(Await(task)))
    /\ (\A task \in Tasks : FinishFair(task))

\* A reader of both lists never holds the targets without the mortars; a
\* writer holds one lock and waits for no other.
LockDiscipline ==
    \A task \in Tasks :
        /\ (Holds(task, "targets") /\ Len(locks_of(srv_req[task])) = 2)
               => Holds(task, "mortars")
        /\ (\E name \in DOMAIN srv_lock : <<task, "write">> \in srv_lock[name].holders)
               => (Held(task) = 1 /\ ~Waits(task))
        /\ (Holds(task, "mortars") \/ Holds(task, "targets") \/ Waits(task))
               => ~Idle(task)

\* C29: the handlers cannot deadlock: the mortars are locked before the
\* targets by the handlers that read both, a writer holds one lock and waits
\* for nothing, and every request that has started comes to its end, its
\* locks released.
C29_EveryRequestCompletes ==
    /\ []LockDiscipline
    /\ \A task \in Tasks : (~Idle(task)) ~> Idle(task)

\* The same while the process runs: a request stays unfinished only when a
\* panic has ended the process.
CompletesWhileRunning ==
    /\ []LockDiscipline
    /\ \A task \in Tasks : (~Idle(task)) ~> (Idle(task) \/ ~srv_up)

----------------------------------------------------------------------------
(* Malformed input                                                          *)

\* C22: malformed input cannot crash the process: no position with a
\* coordinate that is not finite is ever stored, and no request or command
\* ends in a panic, the process running on.
C22_MalformedInputCannotCrash ==
    /\ AllFinite
    /\ srv_up
    /\ srv_out # NoCall => srv_out.resp # Aborted

====
